---- MODULE Spec2Model ----
(***************************************************************************)
(* Adaptive Retrieval Orchestrator of ExtendYourMemory.                    *)
(*                                                                         *)
(* Several views of the backend are modelled, each with its own            *)
(* specification over the same variables:                                  *)
(*   SpecHistory   the two bounded search histories                        *)
(*                 (AdaptiveFAISSOptimizer, LLMQueryGenerator);            *)
(*   SpecSerial /  process_search_with_progress on the module-level        *)
(*   SpecConc      RAGPipeline instance, searches one at a time or         *)
(*                 interleaved at their awaits;                            *)
(*   SpecRetrieve  RAGPipeline.semantic_search with its relevance check    *)
(*                 and its unscored fallback, on concrete index contents;  *)
(*   SpecPlan      AdaptiveFAISSOptimizer.get_adaptive_search_params and   *)
(*                 optimize_chunk_strategy on every analysis and corpus;   *)
(*   SpecFilter    RAGPipeline._filter_low_quality_sources;                *)
(*   SpecKeywords  keyword generation: query analysis, keyword tiers and   *)
(*                 the recovery of both replies;                           *)
(*   SpecQuality   the quality score of AdaptiveFAISSOptimizer;            *)
(*   SpecCheck     RAGPipeline._final_relevance_check on any candidates;   *)
(*   SpecEndpoint  one search request on POST /search or on /ws/search,    *)
(*                 up to what its caller receives.                         *)
(***************************************************************************)
EXTENDS Integers, Sequences, FiniteSets, TLC

VARIABLES
    \* ---- AdaptiveFAISSOptimizer / LLMQueryGenerator -------------------
    optimizer_history,   \* AdaptiveFAISSOptimizer.search_history
    generator_history,   \* LLMQueryGenerator.search_history
    optimizer_appends,   \* number of analyze_search_quality calls so far
    generator_appends,   \* number of record_search_success calls so far
    \* ---- RAGPipeline instance shared by all searches (main.py:73) -----
    vector_store,        \* self.vector_store: 0 (None) or the search that built it
    retriever,           \* self.retriever:    0 (None) or the search that built it
    \* ---- one process_search_with_progress coroutine per search --------
    pc,                  \* position of each search
    built,               \* process_and_store_documents returned a store
    reads,               \* owners of the indexes the search's queries read
    stages,              \* the stages the search has run, in order
    rag_queries,         \* number of expanded queries the search generated
    queries_left,        \* expanded queries still to issue
    outcome,             \* how the search ended
    \* ---- one semantic_search call in detail ---------------------------
    rpc,                 \* position inside semantic_search
    inp,                 \* the call's arguments and the index it runs on
    next_query,          \* loop index over queries
    relevant_docs_with_scores,
    unique_docs,         \* fused, deduplicated candidates
    metadata,            \* chunk -> similarity metadata attached to it
    max_docs_for_check,  \* the configured maximum, once read
    relevant_docs,       \* hits collected by the fallback
    ret,                 \* the returned list and how it was produced
    failed_queries,      \* the queries whose index call raised, per loop
    \* ---- one call of AdaptiveFAISSOptimizer's planning methods --------
    query_analysis,      \* the analysis handed to the optimizer
    doc_count,           \* number of chunks of the corpus
    search_params,       \* result of get_adaptive_search_params, once called
    chunk_config,        \* result of optimize_chunk_strategy, once called
    \* ---- one call of RAGPipeline._filter_low_quality_sources ----------
    raw_documents,       \* the fetched documents (documents of line 268)
    filtered_documents,  \* the filter's result on them, once called
    refiltered_documents, \* the filter's result on its own output
    \* ---- one keyword generation (RAGPipeline.generate_hierarchical_keywords)
    query_generator,     \* self.query_generator and the llm it was given
    kpc,                 \* position of the keyword generation
    intent_analysis,     \* result of analyze_query_intent
    responses,           \* what llm.invoke answered, call by call
    parse_calls,         \* the calls of _robust_json_parse and their results
    keyword_data,        \* what generate_hierarchical_keywords gave the search
    \* ---- one call of AdaptiveFAISSOptimizer.analyze_search_quality ----
    final_documents,     \* the results handed to the quality analysis
    feedback,            \* user_feedback: None or a value in [0,1], in tenths
    quality_metrics,     \* the metrics recorded, once analysed
    \* ---- one call of RAGPipeline._final_relevance_check ---------------
    check_documents,     \* the candidates handed to the check
    check_response,      \* what the generation service does when asked
    check_result,        \* the list returned, once called
    \* ---- one search request as its caller sees it (main.py) -----------
    endpoint,            \* "rest" (POST /search) or "websocket" (/ws/search)
    epc,                 \* position of the handler
    collaborators,       \* what the pipeline's stages do during the request
    http_response,       \* the REST response, once produced
    sent                 \* the websocket messages sent so far, in order

histVars == <<optimizer_history, generator_history, optimizer_appends, generator_appends>>
pipeVars == <<vector_store, retriever, pc, built, reads, stages, rag_queries, queries_left, outcome>>
retrVars == <<rpc, inp, next_query, relevant_docs_with_scores, unique_docs, metadata,
             max_docs_for_check, relevant_docs, ret, failed_queries>>
planVars == <<query_analysis, doc_count, search_params, chunk_config>>
filterVars == <<raw_documents, filtered_documents, refiltered_documents>>
keywordVars == <<query_generator, kpc, intent_analysis, responses, parse_calls, keyword_data>>
qualityVars == <<final_documents, feedback, quality_metrics>>
checkVars == <<check_documents, check_response, check_result>>
endpointVars == <<endpoint, epc, collaborators, http_response, sent>>
unitVars == <<planVars, filterVars, keywordVars, qualityVars, checkVars, endpointVars>>
notPlanVars == <<histVars, pipeVars, retrVars, filterVars, keywordVars, qualityVars, checkVars, endpointVars>>
notFilterVars == <<histVars, pipeVars, retrVars, planVars, keywordVars, qualityVars, checkVars, endpointVars>>
notKeywordVars == <<histVars, pipeVars, retrVars, planVars, filterVars, qualityVars, checkVars, endpointVars>>
notQualityVars == <<histVars, pipeVars, retrVars, planVars, filterVars, keywordVars, checkVars, endpointVars>>
notCheckVars == <<histVars, pipeVars, retrVars, planVars, filterVars, keywordVars, qualityVars, endpointVars>>
notEndpointVars == <<histVars, pipeVars, retrVars, planVars, filterVars, keywordVars, qualityVars, checkVars>>
vars == <<histVars, pipeVars, retrVars, unitVars>>

(***************************************************************************)
(* Bounds of the model.                                                    *)
(***************************************************************************)
MaxRecords == 103      \* record operations per history
MaxSearches == 2       \* searches on the shared pipeline
MaxQueries == 2        \* expanded queries per search
NChunks == 23          \* chunks an index can hold
NFingerprints == 22    \* distinct leading-100-character slices among them
DistMod == 31          \* index distances range over 0 .. DistMod-1 tenths
MaxDocCount == 52      \* chunks of a corpus handed to the optimizer
MaxDocuments == 3      \* documents handed to the quality filter
MaxPrimary == 5        \* keywords a reply lists per tier
MaxSecondary == 12
MaxContext == 10
MaxNegative == 4
MaxResults == 21       \* documents of a final result set
MaxSources == 3        \* distinct sources among them
MaxLengths == 3        \* distinct content lengths among them
MaxCandidates == 12    \* candidates handed to the relevance check
MaxFetched == 2        \* documents the connectors return to one request

Searches == 1..MaxSearches

(***************************************************************************)
(* Search histories.                                                       *)
(***************************************************************************)
HistoryCap == 100
HistoryKeep == 50

\* s[-n:] of Python for a list s and n > 0
LastN(s, n) == IF Len(s) <= n THEN s ELSE SubSeq(s, Len(s) - n + 1, Len(s))

\* the size limit tested one entry too late
TrimOptimizerHistory_LateLimit(h) ==
    IF Len(h) > HistoryCap + 1 THEN LastN(h, HistoryKeep) ELSE h

\* adaptive_faiss_optimizer.py:196-197
TrimOptimizerHistory(h) == IF Len(h) > HistoryCap THEN LastN(h, HistoryKeep) ELSE h

\* the oldest entries kept instead of the newest
TrimGeneratorHistory_KeepsOldest(h) ==
    IF Len(h) > HistoryCap THEN SubSeq(h, 1, HistoryKeep) ELSE h

\* llm_query_generator.py:521-522
TrimGeneratorHistory(h) == IF Len(h) > HistoryCap THEN LastN(h, HistoryKeep) ELSE h

HistInit ==
    /\ optimizer_history = <<>>
    /\ generator_history = <<>>
    /\ optimizer_appends = 0
    /\ generator_appends = 0

\* A synchronous method: no await between the append and the trim, so the event
\* loop runs it as one step.  A record is identified by its append number.
analyze_search_quality ==
    /\ optimizer_appends < MaxRecords
    /\ optimizer_appends' = optimizer_appends + 1
    /\ optimizer_history' = TrimOptimizerHistory(Append(optimizer_history, optimizer_appends + 1))
    /\ UNCHANGED <<generator_history, generator_appends, pipeVars, retrVars, unitVars>>

record_search_success ==
    /\ generator_appends < MaxRecords
    /\ generator_appends' = generator_appends + 1
    /\ generator_history' = TrimGeneratorHistory(Append(generator_history, generator_appends + 1))
    /\ UNCHANGED <<optimizer_history, optimizer_appends, pipeVars, retrVars, unitVars>>

(***************************************************************************)
(* process_search_with_progress on the shared RAGPipeline instance.        *)
(* pc[s] names the await the coroutine of search s is suspended at; an     *)
(* action resumes it and runs the synchronous code up to the next await.   *)
(***************************************************************************)
NoIndex == 0

\* The order of stages laid down for one search.
StageOrder == <<"analysis", "keywords", "connectors", "filter", "plan", "build",
                "retrieve", "refine", "record">>

\* pc values at which the coroutine awaits websocket.send_text
SendPoints == {"send_step1", "send_step2", "send_step4", "send_step5", "send_step6"}

Running(s) == pc[s] \notin {"idle", "done", "failed"}

PipeInit ==
    /\ vector_store = NoIndex
    /\ retriever = NoIndex
    /\ pc = [s \in Searches |-> "idle"]
    /\ built = [s \in Searches |-> FALSE]
    /\ reads = [s \in Searches |-> {}]
    /\ stages = [s \in Searches |-> <<>>]
    /\ rag_queries = [s \in Searches |-> 0]
    /\ queries_left = [s \in Searches |-> 0]
    /\ outcome = [s \in Searches |-> "none"]

Goto(s, p) == pc' = [pc EXCEPT ![s] = p]
Stage(s, names) == stages' = [stages EXCEPT ![s] = @ \o names]
Fail(s, why) ==
    /\ pc' = [pc EXCEPT ![s] = "failed"]
    /\ outcome' = [outcome EXCEPT ![s] = why]

\* main.py:107 / 121-134: the handler starts the search and awaits the first send.
\* serial = TRUE admits a search only when no other one is in progress.
StartSearch(s, serial) ==
    /\ pc[s] = "idle"
    /\ \A t \in Searches : t < s => pc[t] # "idle"
    /\ serial => \A t \in Searches : ~Running(t)
    /\ Goto(s, "send_step1")
    /\ UNCHANGED <<vector_store, retriever, built, reads, stages, rag_queries, queries_left, outcome, histVars, retrVars, unitVars>>

\* main.py:314-320: a send on a closed socket raises; the except block logs,
\* tries to send the error and re-raises.  Nothing else of the search runs.
Disconnect(s) ==
    /\ pc[s] \in SendPoints
    /\ Fail(s, "abandoned")
    /\ UNCHANGED <<vector_store, retriever, built, reads, stages, rag_queries, queries_left, histVars, retrVars, unitVars>>

\* main.py:137 -> rag_pipeline.py:98-104 -> llm_query_generator.py:162, 23-52
EnterKeywordGeneration(s) ==
    /\ pc[s] = "send_step1"
    /\ \/ /\ Goto(s, "analyze")
          /\ UNCHANGED outcome
       \/ Fail(s, "keyword_generation_failed")      \* query_generator is None
    /\ UNCHANGED <<vector_store, retriever, built, reads, stages, rag_queries, queries_left, histVars, retrVars, unitVars>>

\* llm_query_generator.py:50-74: the reply is parsed or the default analysis is
\* returned; either way the keyword prompt is sent next (line 122).
analyze_query_intent(s) ==
    /\ pc[s] = "analyze"
    /\ Stage(s, <<"analysis">>)
    /\ Goto(s, "keywords")
    /\ UNCHANGED <<vector_store, retriever, built, reads, rag_queries, queries_left, outcome, histVars, retrVars, unitVars>>

\* llm_query_generator.py:122-155, 167-188; rag_pipeline.py:106-139
generate_hierarchical_keywords(s) ==
    /\ pc[s] = "keywords"
    /\ Stage(s, <<"keywords">>)
    /\ \/ /\ Goto(s, "send_step2")
          /\ UNCHANGED outcome
       \/ Fail(s, "keyword_generation_failed")
    /\ UNCHANGED <<vector_store, retriever, built, reads, rag_queries, queries_left, histVars, retrVars, unitVars>>

\* main.py:146-162
EnterMcpSearch(s) ==
    /\ pc[s] = "send_step2"
    /\ Goto(s, "mcp")
    /\ UNCHANGED <<vector_store, retriever, built, reads, stages, rag_queries, queries_left, outcome, histVars, retrVars, unitVars>>

\* rag_pipeline.py:142-266 and main.py:165-172: zero documents end the search.
search_with_mcp(s) ==
    /\ pc[s] = "mcp"
    /\ Stage(s, <<"connectors">>)
    /\ \/ /\ Goto(s, "send_step4")
          /\ UNCHANGED outcome
       \/ Fail(s, "no_documents")
    /\ UNCHANGED <<vector_store, retriever, built, reads, rag_queries, queries_left, histVars, retrVars, unitVars>>

\* main.py:193 -> rag_pipeline.py:271-318: the synchronous head of
\* process_and_store_documents.  Every early return leaves self.vector_store
\* and self.retriever as they are.  (self.embeddings is set whenever
\* self.query_generator is, lines 67-75, so line 273 is not taken here.)
process_and_store_documents(s) ==
    /\ pc[s] = "send_step4"
    /\ \/ /\ Goto(s, "rag_queries")                \* line 285: filter removed all
          /\ Stage(s, <<"filter">>)
       \/ /\ Goto(s, "rag_queries")                \* line 303 / 340: no splits, error
          /\ Stage(s, <<"filter", "plan">>)
       \/ /\ Goto(s, "build")                      \* line 318: await the build
          /\ Stage(s, <<"filter", "plan">>)
    /\ UNCHANGED <<vector_store, retriever, built, reads, rag_queries, queries_left, outcome, histVars, retrVars, unitVars>>

\* rag_pipeline.py:318-340: the build returns and both references are replaced
\* without an await in between, or it raises and None is returned.
BuildIndex(s) ==
    /\ pc[s] = "build"
    /\ Stage(s, <<"build">>)
    /\ \/ /\ vector_store' = s
          /\ retriever' = s
          /\ built' = [built EXCEPT ![s] = TRUE]
          /\ Goto(s, "save")
       \/ /\ Goto(s, "rag_queries")
          /\ UNCHANGED <<vector_store, retriever, built>>
    /\ UNCHANGED <<reads, rag_queries, queries_left, outcome, histVars, retrVars, unitVars>>

\* main.py:197-198, rag_pipeline.py:713-723
save_vector_store(s) ==
    /\ pc[s] = "save"
    /\ Goto(s, "rag_queries")
    /\ UNCHANGED <<vector_store, retriever, built, reads, stages, rag_queries, queries_left, outcome, histVars, retrVars, unitVars>>

\* main.py:201, rag_pipeline.py:460-476
generate_rag_queries(s) ==
    /\ pc[s] = "rag_queries"
    /\ \/ \E n \in 0..MaxQueries :
            /\ rag_queries' = [rag_queries EXCEPT ![s] = n]
            /\ Goto(s, "send_step5")
            /\ UNCHANGED outcome
       \/ /\ Fail(s, "rag_query_generation_failed")
          /\ UNCHANGED rag_queries
    /\ UNCHANGED <<vector_store, retriever, built, reads, stages, queries_left, histVars, retrVars, unitVars>>

\* main.py:203-224 -> rag_pipeline.py:482-496.  The configuration getters of
\* main.py:214-215 may raise, which ends the search (main.py:314-320).  With no
\* retriever semantic_search returns [] at once; otherwise the query loop starts.
EnterSemanticSearch(s) ==
    /\ pc[s] = "send_step5"
    /\ \/ /\ Fail(s, "config_failed")
          /\ UNCHANGED <<stages, queries_left>>
       \/ /\ retriever = NoIndex
          /\ Stage(s, <<"retrieve">>)
          /\ Goto(s, "send_step6")
          /\ UNCHANGED <<outcome, queries_left>>
       \/ /\ retriever # NoIndex
          /\ queries_left' = [queries_left EXCEPT ![s] = rag_queries[s]]
          /\ Goto(s, "query")
          /\ UNCHANGED <<outcome, stages>>
    /\ UNCHANGED <<vector_store, retriever, built, reads, rag_queries, histVars, retrVars, unitVars>>

\* rag_pipeline.py:489-515: one expanded query against whatever index
\* self.vector_store refers to when the query is issued; a failing query is
\* skipped.
SimilarityQuery(s) ==
    /\ pc[s] = "query"
    /\ queries_left[s] > 0
    /\ queries_left' = [queries_left EXCEPT ![s] = @ - 1]
    /\ \/ reads' = [reads EXCEPT ![s] = @ \cup {vector_store}]
       \/ UNCHANGED reads
    /\ UNCHANGED <<vector_store, retriever, pc, built, stages, rag_queries, outcome, histVars, retrVars, unitVars>>

\* rag_pipeline.py:517-545, 565-570: fuse, deduplicate, read the configured
\* maximum, then return, await the relevance check, or start the fallback.
FuseResults(s) ==
    /\ pc[s] = "query"
    /\ queries_left[s] = 0
    /\ \/ /\ Stage(s, <<"retrieve">>)               \* line 565: no relevance check
          /\ Goto(s, "send_step6")
          /\ UNCHANGED queries_left
       \/ /\ Goto(s, "refine")                      \* line 543
          /\ UNCHANGED <<stages, queries_left>>
       \/ /\ Goto(s, "fallback")                    \* line 570
          /\ queries_left' = [queries_left EXCEPT ![s] = rag_queries[s]]
          /\ UNCHANGED stages
    /\ UNCHANGED <<vector_store, retriever, built, reads, rag_queries, outcome, histVars, retrVars, unitVars>>

\* rag_pipeline.py:605-665: every path of the relevance check returns a list.
FinalRelevanceCheck(s) ==
    /\ pc[s] = "refine"
    /\ Stage(s, <<"retrieve", "refine">>)
    /\ Goto(s, "send_step6")
    /\ UNCHANGED <<vector_store, retriever, built, reads, rag_queries, queries_left, outcome, histVars, retrVars, unitVars>>

\* rag_pipeline.py:577-586: the fallback asks self.retriever, query by query.
FallbackQuery(s) ==
    /\ pc[s] = "fallback"
    /\ queries_left[s] > 0
    /\ queries_left' = [queries_left EXCEPT ![s] = @ - 1]
    /\ \/ reads' = [reads EXCEPT ![s] = @ \cup {retriever}]
       \/ UNCHANGED reads
    /\ UNCHANGED <<vector_store, retriever, pc, built, stages, rag_queries, outcome, histVars, retrVars, unitVars>>

\* rag_pipeline.py:588-599
FallbackReturn(s) ==
    /\ pc[s] = "fallback"
    /\ queries_left[s] = 0
    /\ Stage(s, <<"retrieve">>)
    /\ Goto(s, "send_step6")
    /\ UNCHANGED <<vector_store, retriever, built, reads, rag_queries, queries_left, outcome, histVars, retrVars, unitVars>>

\* main.py:273-302
EnterReport(s) ==
    /\ pc[s] = "send_step6"
    /\ Goto(s, "report")
    /\ UNCHANGED <<vector_store, retriever, built, reads, stages, rag_queries, queries_left, outcome, histVars, retrVars, unitVars>>

\* rag_pipeline.py:699-711 and main.py:302-312: the search returns its result.
\* Nothing between the report and the return touches a search history.
generate_report(s) ==
    /\ pc[s] = "report"
    /\ \/ /\ pc' = [pc EXCEPT ![s] = "done"]
          /\ outcome' = [outcome EXCEPT ![s] = "complete"]
       \/ Fail(s, "report_failed")
    /\ UNCHANGED <<vector_store, retriever, built, reads, stages, rag_queries, queries_left, histVars, retrVars, unitVars>>

SearchStep(s) ==
    \/ Disconnect(s)
    \/ EnterKeywordGeneration(s)
    \/ analyze_query_intent(s)
    \/ generate_hierarchical_keywords(s)
    \/ EnterMcpSearch(s)
    \/ search_with_mcp(s)
    \/ process_and_store_documents(s)
    \/ BuildIndex(s)
    \/ save_vector_store(s)
    \/ generate_rag_queries(s)
    \/ EnterSemanticSearch(s)
    \/ SimilarityQuery(s)
    \/ FuseResults(s)
    \/ FinalRelevanceCheck(s)
    \/ FallbackQuery(s)
    \/ FallbackReturn(s)
    \/ EnterReport(s)
    \/ generate_report(s)

(***************************************************************************)
(* RAGPipeline.semantic_search in detail.                                  *)
(*                                                                         *)
(* An index holds the chunks 1..n.  Chunk c starts with the text           *)
(* Fingerprint(c); the index distance between query q and chunk c is       *)
(* Distance(q, c) tenths.  Scores are kept in thousandths.                 *)
(***************************************************************************)
RelevanceCheckMin == 10     \* rag_pipeline.py:542
OutputCap == 20             \* rag_pipeline.py:565, 599
TopWhenNoneSelected == 5    \* rag_pipeline.py:661
TopWhenCheckFails == 10     \* rag_pipeline.py:665

Chunks == 1..NChunks
Fingerprint(c) == ((c - 1) % NFingerprints) + 1       \* doc.page_content[:100]
Distance(q, c) == (7 * c + 11 * q) % DistMod

\* rag_pipeline.py:502: similarity = 1 / (1 + distance), in thousandths,
\* rounded down (exact for comparisons against a whole number of thousandths)
SimilarityScore(d) == 10000 \div (10 + d)

\* s[:n] of Python for n >= 0
Take(s, n) == IF Len(s) <= n THEN s ELSE SubSeq(s, 1, n)

\* FAISS similarity_search_with_score: the k nearest of the chunks 1..n,
\* nearest first, as <<chunk, distance>> pairs
RECURSIVE Nearest(_, _, _)
Nearest(q, cs, k) ==
    IF k = 0 \/ cs = {} THEN <<>>
    ELSE LET c == CHOOSE x \in cs : \A y \in cs :
                     \/ Distance(q, x) < Distance(q, y)
                     \/ Distance(q, x) = Distance(q, y) /\ x <= y
         IN <<c>> \o Nearest(q, cs \ {c}, k - 1)

similarity_search_with_score(q, n, k) ==
    LET near == Nearest(q, 1..n, k)
    IN [i \in 1..Len(near) |-> [document |-> near[i], score |-> Distance(q, near[i])]]

\* retriever.invoke (search_type "mmr"): at most k of the stored chunks, the
\* nearest one first, the others in the order the diversity term puts them
retriever_invoke(q, n, k) ==
    LET near == Nearest(q, 1..n, k)
    IN IF Len(near) <= 1 THEN near
       ELSE <<near[1]>> \o [i \in 1..(Len(near) - 1) |-> near[Len(near) + 1 - i]]

\* the threshold test left out
PassesThreshold_NoFloor(similarity_score, similarity_threshold) == TRUE

\* a score equal to the threshold rejected
PassesThreshold_AboveOnly(similarity_score, similarity_threshold) ==
    similarity_score > similarity_threshold

\* rag_pipeline.py:505
PassesThreshold(similarity_score, similarity_threshold) ==
    similarity_score >= similarity_threshold

\* rag_pipeline.py:499-511: the hits of one query that pass the threshold
RECURSIVE ScoredHits(_, _, _)
ScoredHits(hits, query, similarity_threshold) ==
    IF hits = <<>> THEN <<>>
    ELSE LET h == Head(hits)
             item == [document |-> h.document,
                      similarity_score |-> SimilarityScore(h.score),
                      distance |-> h.score,
                      query |-> query]
         IN (IF PassesThreshold(item.similarity_score, similarity_threshold)
             THEN <<item>> ELSE <<>>)
            \o ScoredHits(Tail(hits), query, similarity_threshold)

\* rag_pipeline.py:518: list.sort(key=similarity_score, reverse=True), a stable
\* sort: items of equal score keep their order
RECURSIVE InsertByScore(_, _)
InsertByScore(sorted, item) ==
    IF sorted = <<>> THEN <<item>>
    ELSE IF Head(sorted).similarity_score >= item.similarity_score
         THEN <<Head(sorted)>> \o InsertByScore(Tail(sorted), item)
         ELSE <<item>> \o sorted

\* the sort left out: items stay in query order
SortByScore_Unsorted(items) == items

RECURSIVE SortByScore(_)
SortByScore(items) ==
    IF items = <<>> THEN <<>>
    ELSE InsertByScore(SortByScore(SubSeq(items, 1, Len(items) - 1)), items[Len(items)])

\* rag_pipeline.py:521-536 and 589-596: keep the first document of each
\* fingerprint (hash(doc.page_content[:100]) is equal for equal slices)
RECURSIVE DedupDocs(_, _)
DedupDocs(docs, seen_content) ==
    IF docs = <<>> THEN <<>>
    ELSE LET content_hash == Fingerprint(Head(docs))
         IN IF content_hash \in seen_content
            THEN DedupDocs(Tail(docs), seen_content)
            ELSE <<Head(docs)>> \o DedupDocs(Tail(docs), seen_content \cup {content_hash})

\* rag_pipeline.py:524-536: the item whose metadata each surviving document
\* receives is the first item of its fingerprint
RECURSIVE DedupItems(_, _)
DedupItems(items, seen_content) ==
    IF items = <<>> THEN <<>>
    ELSE LET content_hash == Fingerprint(Head(items).document)
         IN IF content_hash \in seen_content
            THEN DedupItems(Tail(items), seen_content)
            ELSE <<Head(items)>> \o DedupItems(Tail(items), seen_content \cup {content_hash})

NoMetadata == [similarity_score |-> -1, distance |-> -1, matched_query |-> 0]

AttachMetadata(items) ==
    [c \in Chunks |->
        IF \E i \in 1..Len(items) : items[i].document = c
        THEN LET i == CHOOSE j \in 1..Len(items) : items[j].document = c
             IN [similarity_score |-> items[i].similarity_score,
                 distance |-> items[i].distance,
                 matched_query |-> items[i].query]
        ELSE NoMetadata]

(***************************************************************************)
(* The relevance check's reply.  A reply is a sequence of characters.      *)
(***************************************************************************)
Digits == <<"0", "1", "2", "3", "4", "5", "6", "7", "8", "9">>
IsDigit(ch) == \E i \in 1..10 : Digits[i] = ch
DigitValue(ch) == (CHOOSE i \in 1..10 : Digits[i] = ch) - 1
IsSpace(ch) == ch \in {" ", "\n"}

\* str.split(sep): the pieces between separators, empty pieces included
RECURSIVE SplitOn(_, _, _)
SplitOn(str, sep, piece) ==
    IF str = <<>> THEN <<piece>>
    ELSE IF Head(str) = sep
         THEN <<piece>> \o SplitOn(Tail(str), sep, <<>>)
         ELSE SplitOn(Tail(str), sep, Append(piece, Head(str)))

RECURSIVE LStrip(_)
LStrip(str) == IF str # <<>> /\ IsSpace(Head(str)) THEN LStrip(Tail(str)) ELSE str

RECURSIVE RStrip(_)
RStrip(str) ==
    IF str # <<>> /\ IsSpace(str[Len(str)]) THEN RStrip(SubSeq(str, 1, Len(str) - 1)) ELSE str

\* str.strip()
Strip(str) == RStrip(LStrip(str))

RECURSIVE DigitsValue(_, _)
DigitsValue(str, acc) ==
    IF str = <<>> THEN acc ELSE DigitsValue(Tail(str), 10 * acc + DigitValue(Head(str)))

AllDigits(str) == str # <<>> /\ \A i \in 1..Len(str) : IsDigit(str[i])

\* int(text): an optional sign and decimal digits, else ValueError
ParseInt(str) ==
    LET t == Strip(str)
        signed == t # <<>> /\ Head(t) \in {"-", "+"}
        body == IF signed THEN Tail(t) ELSE t
    IN IF AllDigits(body)
       THEN [ok |-> TRUE,
             value |-> IF signed /\ Head(t) = "-" THEN 0 - DigitsValue(body, 0)
                       ELSE DigitsValue(body, 0)]
       ELSE [ok |-> FALSE, value |-> 0]

\* rag_pipeline.py:646
IndexInRange(idx, n) == 0 <= idx /\ idx < n

\* rag_pipeline.py:643-649
RECURSIVE SelectIndices(_, _)
SelectIndices(numbers, n) ==
    IF numbers = <<>> THEN <<>>
    ELSE LET parsed == ParseInt(Head(numbers))
         IN (IF parsed.ok /\ IndexInRange(parsed.value, n) THEN <<parsed.value>> ELSE <<>>)
            \o SelectIndices(Tail(numbers), n)

\* the reply's numbers taken as 1-based positions
SelectedDocuments_OneBased(documents, selected_indices) ==
    [j \in 1..Len(selected_indices) |->
        documents[IF selected_indices[j] = 0 THEN 1 ELSE selected_indices[j]]]

\* rag_pipeline.py:656: [documents[i] for i in selected_indices], 0-based
SelectedDocuments(documents, selected_indices) ==
    [j \in 1..Len(selected_indices) |-> documents[selected_indices[j] + 1]]

\* the first candidates dropped when the reply selects nothing
final_relevance_check_NoneWhenNoneSelected(documents, response) ==
    IF response.kind = "none"
    THEN [docs |-> Take(documents, TopWhenCheckFails), refine |-> "llm_unavailable", asked |-> FALSE]
    ELSE IF response.kind = "error"
    THEN [docs |-> Take(documents, TopWhenCheckFails), refine |-> "check_failed", asked |-> TRUE]
    ELSE LET numbers == SplitOn(Strip(response.content), ",", <<>>)
             selected_indices == SelectIndices(numbers, Len(documents))
         IN IF selected_indices # <<>>
            THEN [docs |-> SelectedDocuments(documents, selected_indices),
                  refine |-> "selected", asked |-> TRUE]
            ELSE [docs |-> <<>>, refine |-> "none_selected", asked |-> TRUE]

\* rag_pipeline.py:605-665.  response is what self.llm.invoke produced:
\* kind "none" (self.llm is None), "error" (invoke raised) or "reply".
final_relevance_check(documents, response) ==
    IF response.kind = "none"
    THEN [docs |-> Take(documents, TopWhenCheckFails), refine |-> "llm_unavailable", asked |-> FALSE]
    ELSE IF response.kind = "error"
    THEN [docs |-> Take(documents, TopWhenCheckFails), refine |-> "check_failed", asked |-> TRUE]
    ELSE LET numbers == SplitOn(Strip(response.content), ",", <<>>)
             selected_indices == SelectIndices(numbers, Len(documents))
         IN IF selected_indices # <<>>
            THEN [docs |-> SelectedDocuments(documents, selected_indices),
                  refine |-> "selected", asked |-> TRUE]
            ELSE [docs |-> Take(documents, TopWhenNoneSelected),
                  refine |-> "none_selected", asked |-> TRUE]

\* the check run whatever the setting says
RelevanceCheckTriggered_IgnoresSetting(original_query, n_unique) ==
    n_unique > RelevanceCheckMin

\* rag_pipeline.py:542; main.py:218 passes the query only when the final
\* check is enabled, and an empty query is falsy
RelevanceCheckTriggered(original_query, n_unique) ==
    original_query = "text" /\ n_unique > RelevanceCheckMin

(***************************************************************************)
(* semantic_search as a state machine: one action per resumption.          *)
(***************************************************************************)
Ks == {2, 6, 15}                        \* search_kwargs["k"] of the retriever
Thresholds == {100, 300, 500}           \* similarity_threshold, thousandths
MaxDocsSettings == {5, 11, 20}          \* get_max_documents_for_relevance_check()

Replies == {
    <<"2", ",", "5", ",", "9", ",", "1">>,
    <<"b", "a", "n", "a", "n", "a">>,
    <<"2", ",", "2">>,
    <<" ", "1", "0", ",", " ", "x", " ", ",", "0", "\n">>,
    <<>>,
    <<"-", "1", ",", "9", "9">>,
    <<"1", "1", ",", "3", ",", "+", "4">> }

Responses == {[kind |-> "reply", content |-> r] : r \in Replies}
             \cup {[kind |-> "error", content |-> <<>>]}

\* main.py:218: the final check disabled gives None, enabled gives the query,
\* which the REST endpoint lets be empty
OriginalQueries == {"none", "empty", "text"}

RetrInputs ==
    {[has_retriever |-> FALSE, store |-> 0, k |-> 6, nq |-> n, threshold |-> 300,
      original_query |-> "text"] : n \in 0..MaxQueries}
    \cup [has_retriever : {TRUE}, store : 1..NChunks, k : Ks, nq : 0..MaxQueries,
          threshold : Thresholds, original_query : OriginalQueries]

NotReturned ==
    [docs |-> <<>>, path |-> "pending", refine |-> "not_run", asked |-> FALSE, reply |-> <<>>]

RetrInit ==
    /\ rpc = "call"
    /\ inp \in RetrInputs
    /\ next_query = 0
    /\ relevant_docs_with_scores = <<>>
    /\ unique_docs = <<>>
    /\ metadata = [c \in Chunks |-> NoMetadata]
    /\ max_docs_for_check = 0
    /\ relevant_docs = <<>>
    /\ ret = NotReturned
    /\ failed_queries = {}

Return(docs, path, refine, asked, reply) ==
    /\ ret' = [docs |-> docs, path |-> path, refine |-> refine, asked |-> asked, reply |-> reply]
    /\ rpc' = "done"

\* rag_pipeline.py:482-487
semantic_search ==
    /\ rpc = "call"
    /\ IF ~inp.has_retriever
       THEN /\ Return(<<>>, "no_retriever", "not_run", FALSE, <<>>)
            /\ UNCHANGED next_query
       ELSE /\ rpc' = "query"
            /\ next_query' = 1
            /\ UNCHANGED ret
    /\ UNCHANGED <<failed_queries, inp, relevant_docs_with_scores, unique_docs, metadata, max_docs_for_check,
                   relevant_docs, histVars, pipeVars, unitVars>>

\* rag_pipeline.py:489-511: the index answers one query
QueryReturns ==
    /\ rpc = "query"
    /\ next_query <= inp.nq
    /\ relevant_docs_with_scores' = relevant_docs_with_scores \o
           ScoredHits(similarity_search_with_score(next_query, inp.store, inp.k),
                      next_query, inp.threshold)
    /\ next_query' = next_query + 1
    /\ UNCHANGED <<failed_queries, rpc, inp, unique_docs, metadata, max_docs_for_check, relevant_docs, ret,
                   histVars, pipeVars, unitVars>>

\* the hits collected before the failing query are lost with it
QueryFails_LosesHits ==
    /\ rpc = "query"
    /\ next_query <= inp.nq
    /\ next_query' = next_query + 1
    /\ failed_queries' = failed_queries \cup {<<"scored", next_query>>}
    /\ relevant_docs_with_scores' = <<>>
    /\ UNCHANGED <<rpc, inp, unique_docs, metadata,
                   max_docs_for_check, relevant_docs, ret, histVars, pipeVars, unitVars>>

\* rag_pipeline.py:513-515: the index query raises and the query is skipped
QueryFails ==
    /\ rpc = "query"
    /\ next_query <= inp.nq
    /\ next_query' = next_query + 1
    /\ failed_queries' = failed_queries \cup {<<"scored", next_query>>}
    /\ UNCHANGED relevant_docs_with_scores
    /\ UNCHANGED <<rpc, inp, unique_docs, metadata,
                   max_docs_for_check, relevant_docs, ret, histVars, pipeVars, unitVars>>

Fused == DedupItems(SortByScore(relevant_docs_with_scores), {})
FusedDocs == [i \in 1..Len(Fused) |-> Fused[i].document]

\* rag_pipeline.py:517-536 run for every outcome of the configuration read
FuseAndDeduplicate ==
    /\ unique_docs' = FusedDocs
    /\ metadata' = AttachMetadata(Fused)

\* rag_pipeline.py:540-545, 565: the maximum is read; no relevance check is due
\* and the first OutputCap candidates are returned
ReturnFused ==
    /\ rpc = "query"
    /\ next_query > inp.nq
    /\ FuseAndDeduplicate
    /\ \E m \in MaxDocsSettings : max_docs_for_check' = m
    /\ ~RelevanceCheckTriggered(inp.original_query, Len(FusedDocs))
    /\ Return(Take(FusedDocs, OutputCap), "scored", "not_run", FALSE, <<>>)
    /\ UNCHANGED <<failed_queries, inp, next_query, relevant_docs_with_scores, relevant_docs, histVars, pipeVars, unitVars>>

\* rag_pipeline.py:540-543, 620-637: the relevance check is due; the digest is
\* built and the generation service is asked
AskRelevance ==
    /\ rpc = "query"
    /\ next_query > inp.nq
    /\ FuseAndDeduplicate
    /\ \E m \in MaxDocsSettings : max_docs_for_check' = m
    /\ RelevanceCheckTriggered(inp.original_query, Len(FusedDocs))
    /\ rpc' = "refine"
    /\ UNCHANGED <<failed_queries, inp, next_query, relevant_docs_with_scores, relevant_docs, ret,
                   histVars, pipeVars, unitVars>>

\* rag_pipeline.py:539-540 raise inside the try of line 486 (config_manager.py
\* defines no get_max_documents_for_relevance_check): lines 567-570 start the
\* fallback
ConfigReadFails ==
    /\ rpc = "query"
    /\ next_query > inp.nq
    /\ FuseAndDeduplicate
    /\ rpc' = "fallback"
    /\ next_query' = 1
    /\ UNCHANGED <<failed_queries, inp, relevant_docs_with_scores, max_docs_for_check, relevant_docs, ret,
                   histVars, pipeVars, unitVars>>

\* rag_pipeline.py:543-545, 565: the reply (or the failure) of the generation
\* service decides the list
RelevanceAnswered ==
    /\ rpc = "refine"
    /\ \E response \in Responses :
         LET r == final_relevance_check(Take(unique_docs, max_docs_for_check), response)
         IN Return(Take(r.docs, OutputCap), "scored", r.refine, r.asked, response.content)
    /\ UNCHANGED <<failed_queries, inp, next_query, relevant_docs_with_scores, unique_docs, metadata,
                   max_docs_for_check, relevant_docs, histVars, pipeVars, unitVars>>

\* rag_pipeline.py:577-583
FallbackQueryReturns ==
    /\ rpc = "fallback"
    /\ next_query <= inp.nq
    /\ relevant_docs' = relevant_docs \o retriever_invoke(next_query, inp.store, inp.k)
    /\ next_query' = next_query + 1
    /\ UNCHANGED <<failed_queries, rpc, inp, relevant_docs_with_scores, unique_docs, metadata,
                   max_docs_for_check, ret, histVars, pipeVars, unitVars>>

\* rag_pipeline.py:584-586
FallbackQueryFails ==
    /\ rpc = "fallback"
    /\ next_query <= inp.nq
    /\ next_query' = next_query + 1
    /\ failed_queries' = failed_queries \cup {<<"fallback", next_query>>}
    /\ UNCHANGED <<rpc, inp, relevant_docs_with_scores, unique_docs, metadata,
                   max_docs_for_check, relevant_docs, ret, histVars, pipeVars, unitVars>>

\* rag_pipeline.py:588-599
fallback_semantic_search ==
    /\ rpc = "fallback"
    /\ next_query > inp.nq
    /\ Return(Take(DedupDocs(relevant_docs, {}), OutputCap), "fallback", "not_run", FALSE, <<>>)
    /\ UNCHANGED <<failed_queries, inp, next_query, relevant_docs_with_scores, unique_docs, metadata,
                   max_docs_for_check, relevant_docs, histVars, pipeVars, unitVars>>

(***************************************************************************)
(* AdaptiveFAISSOptimizer: retrieval parameters and chunk strategy.        *)
(* The tags of an analysis are the literals the code compares with; every  *)
(* other value of a tag takes the same branches as the default tag.        *)
(* lambda_mult is counted in tenths.                                       *)
(***************************************************************************)
Min(a, b) == IF a <= b THEN a ELSE b
Max(a, b) == IF a >= b THEN a ELSE b

Intents == {"fact_check", "exploratory", "comparative", "information"}
Complexities == {"complex", "simple", "medium"}
SearchStrategies == {"precision", "exploration", "comprehensive"}
Domains == {"technical", "academic", "general"}

QueryAnalyses ==
    [intent : Intents, complexity : Complexities,
     search_strategy : SearchStrategies, domain : Domains]

NotCalled == [called |-> FALSE]

\* adaptive_faiss_optimizer.py:53-82
BaseSearchParams(intent) ==
    CASE intent = "fact_check"  -> [k |-> 3,  fetch_k |-> 10, lambda_mult |-> 8]
      [] intent = "exploratory" -> [k |-> 10, fetch_k |-> 50, lambda_mult |-> 2]
      [] intent = "comparative" -> [k |-> 8,  fetch_k |-> 30, lambda_mult |-> 4]
      [] OTHER                  -> [k |-> 6,  fetch_k |-> 20, lambda_mult |-> 5]

\* adaptive_faiss_optimizer.py:85-92
ComplexityParams(p, complexity) ==
    CASE complexity = "complex" ->
            [p EXCEPT !.fetch_k = Min(p.fetch_k * 2, 100), !.k = Min(p.k + 2, 15)]
      [] complexity = "simple" ->
            [p EXCEPT !.fetch_k = Max(p.fetch_k \div 2, 5), !.k = Max(p.k - 1, 3)]
      [] OTHER -> p

\* adaptive_faiss_optimizer.py:95-98
StrategyParams(p, search_strategy) ==
    CASE search_strategy = "precision"   -> [p EXCEPT !.lambda_mult = Min(p.lambda_mult + 2, 9)]
      [] search_strategy = "exploration" -> [p EXCEPT !.lambda_mult = Max(p.lambda_mult - 2, 1)]
      [] OTHER -> p

SmallCorpusLimit == 50

\* the result count capped at half the corpus, the + 1 forgotten
SmallCorpusK_NoPlusOne(k, n) == Min(k, n \div 2)

\* the result count of a small corpus left as it was
SmallCorpusK_Uncapped(k, n) == k

\* adaptive_faiss_optimizer.py:102
SmallCorpusK(k, n) == Min(k, n \div 2 + 1)

\* the candidate pool of a small corpus left as it was
SmallCorpusParams_PoolUncapped(p, n) ==
    IF n < SmallCorpusLimit THEN [p EXCEPT !.k = SmallCorpusK(p.k, n)] ELSE p

\* adaptive_faiss_optimizer.py:100-103
SmallCorpusParams(p, n) ==
    IF n < SmallCorpusLimit
    THEN [p EXCEPT !.k = SmallCorpusK(p.k, n), !.fetch_k = Min(p.fetch_k, n)]
    ELSE p

\* adaptive_faiss_optimizer.py:44-108, the body of the try
AdaptiveSearchParams(analysis, n) ==
    SmallCorpusParams(
        StrategyParams(
            ComplexityParams(BaseSearchParams(analysis.intent), analysis.complexity),
            analysis.search_strategy),
        n)

\* adaptive_faiss_optimizer.py:131-147
BaseChunkConfig(intent) ==
    CASE intent = "fact_check"  -> [chunk_size |-> 500,  chunk_overlap |-> 100]
      [] intent = "exploratory" -> [chunk_size |-> 1500, chunk_overlap |-> 300]
      [] OTHER                  -> [chunk_size |-> 1000, chunk_overlap |-> 200]

\* the overlap tripled and the cap at half the chunk size left out
ComplexOverlap_TripledUncapped(chunk_overlap, chunk_size) == chunk_overlap * 3

\* adaptive_faiss_optimizer.py:152: min(chunk_overlap * 1.5, chunk_size // 2);
\* every overlap the code starts from is even, so the product is whole
ComplexOverlap(chunk_overlap, chunk_size) ==
    Min((chunk_overlap * 3) \div 2, chunk_size \div 2)

\* adaptive_faiss_optimizer.py:134, 155-160: the separator sequence, each
\* separator by name
Separators(domain) ==
    CASE domain = "technical" ->
            <<"code_fence", "blank_line", "newline", "ideographic_stop", "full_stop", "space", "empty">>
      [] domain = "academic" ->
            <<"blank_line", "newline", "ideographic_stop", "fullwidth_stop", "full_stop", "space", "empty">>
      [] OTHER ->
            <<"blank_line", "newline", "ideographic_stop", "full_stop", "space", "empty">>

\* adaptive_faiss_optimizer.py:119-163, the body of the try
ChunkStrategy(analysis) ==
    LET base == BaseChunkConfig(analysis.intent)
    IN [chunk_size |-> base.chunk_size,
        chunk_overlap |-> IF analysis.complexity = "complex"
                          THEN ComplexOverlap(base.chunk_overlap, base.chunk_size)
                          ELSE base.chunk_overlap,
        separators |-> Separators(analysis.domain)]

PlanInit ==
    /\ query_analysis \in QueryAnalyses
    /\ doc_count \in 1..MaxDocCount       \* rag_pipeline.py:301-307: len(splits), never 0
    /\ search_params = NotCalled
    /\ chunk_config = NotCalled

\* adaptive_faiss_optimizer.py:44-117
get_adaptive_search_params ==
    /\ ~search_params.called
    /\ search_params' = [called |-> TRUE,
                         params |-> AdaptiveSearchParams(query_analysis, doc_count)]
    /\ UNCHANGED <<query_analysis, doc_count, chunk_config, notPlanVars>>

\* adaptive_faiss_optimizer.py:119-170
optimize_chunk_strategy ==
    /\ ~chunk_config.called
    /\ chunk_config' = [called |-> TRUE, config |-> ChunkStrategy(query_analysis)]
    /\ UNCHANGED <<query_analysis, doc_count, search_params, notPlanVars>>

PlanIdle ==
    /\ query_analysis = <<>>
    /\ doc_count = 0
    /\ search_params = <<>>
    /\ chunk_config = <<>>

(***************************************************************************)
(* RAGPipeline._filter_low_quality_sources.                                *)
(* A document is its metadata url and title and its page_content.  A url   *)
(* or title is given by the pattern list it matches; None is a JSON null   *)
(* the connector passed through (rag_pipeline.py:189-191).  A content is   *)
(* given by the measures the predicates take of it.                        *)
(***************************************************************************)
Urls == {"None", "search_engine", "social", "article"}
Titles == {"None", "search_results", "article"}

GoodContent ==
    [chars |-> 4000, words |-> 600, sentences |-> 40, unique_sentences |-> 38,
     search_indicator |-> FALSE, error_indicator |-> FALSE, nav_indicator |-> FALSE]

Contents == {
    GoodContent,
    [GoodContent EXCEPT !.chars = 60, !.words = 9, !.sentences = 2, !.unique_sentences = 1],
    [GoodContent EXCEPT !.chars = 700, !.words = 90, !.search_indicator = TRUE],
    [GoodContent EXCEPT !.search_indicator = TRUE],
    [GoodContent EXCEPT !.error_indicator = TRUE],
    [GoodContent EXCEPT !.chars = 300, !.words = 40, !.sentences = 3,
                        !.unique_sentences = 2, !.nav_indicator = TRUE],
    [GoodContent EXCEPT !.sentences = 12, !.unique_sentences = 5] }

\* every url and title on a good content, every content on a good url and title
Documents ==
    [url : Urls, title : Titles, content : {GoodContent}]
    \cup [url : {"article"}, title : {"article"}, content : Contents]

RECURSIVE SeqsUpTo(_, _)
SeqsUpTo(S, n) ==
    IF n = 0 THEN {<<>>}
    ELSE LET shorter == SeqsUpTo(S, n - 1)
         IN shorter \cup {Append(s, x) : s \in {t \in shorter : Len(t) = n - 1}, x \in S}

\* rag_pipeline.py:756 (None has no lower) and 813 (None has no lower)
PredicateRaises(doc) == doc.title = "None" \/ doc.url = "None"

\* rag_pipeline.py:796-845
is_search_result_page(url, title, content) ==
    \/ url = "search_engine"
    \/ title = "search_results"
    \/ content.search_indicator /\ content.chars < 1000

\* rag_pipeline.py:847-890
is_low_quality_content(content, title) ==
    \/ content.chars < 100
    \/ content.error_indicator
    \/ content.words < 50 /\ content.nav_indicator
    \/ content.sentences > 5 /\ 2 * content.unique_sentences < content.sentences

\* rag_pipeline.py:892-912
is_blocked_domain(url) == url = "social"

\* rag_pipeline.py:761-776: the three `continue`s
Removed(doc) ==
    \/ is_search_result_page(doc.url, doc.title, doc.content)
    \/ is_low_quality_content(doc.content, doc.title)
    \/ is_blocked_domain(doc.url)

\* the document kept by the handler and once more by the code after it
KeepOnError_Twice(out, doc) == [out EXCEPT !.docs = Append(Append(@, doc), doc)]

\* the handler logging and raising again
KeepOnError_Reraise(out, doc) == [out EXCEPT !.raised = TRUE]

\* rag_pipeline.py:781-784
KeepOnError(out, doc) == [out EXCEPT !.docs = Append(@, doc)]

\* rag_pipeline.py:753-784: one iteration of the loop
FilterOne(out, doc) ==
    IF out.raised THEN out
    ELSE IF PredicateRaises(doc) THEN KeepOnError(out, doc)
    ELSE IF Removed(doc) THEN out
    ELSE [out EXCEPT !.docs = Append(@, doc)]

RECURSIVE FilterFrom(_, _, _)
FilterFrom(docs, i, out) ==
    IF i > Len(docs) THEN out ELSE FilterFrom(docs, i + 1, FilterOne(out, docs[i]))

\* rag_pipeline.py:747-794
FilterLowQualitySources(docs) == FilterFrom(docs, 1, [raised |-> FALSE, docs |-> <<>>])

FilterInit ==
    /\ raw_documents \in SeqsUpTo(Documents, MaxDocuments)
    /\ filtered_documents = NotCalled
    /\ refiltered_documents = NotCalled

\* rag_pipeline.py:280: the filter applied to the fetched documents
filter_low_quality_sources ==
    /\ ~filtered_documents.called
    /\ filtered_documents' = [called |-> TRUE, result |-> FilterLowQualitySources(raw_documents)]
    /\ UNCHANGED <<raw_documents, refiltered_documents, notFilterVars>>

\* the filter applied to its own output
filter_filtered_documents ==
    /\ filtered_documents.called /\ ~filtered_documents.result.raised
    /\ ~refiltered_documents.called
    /\ refiltered_documents' =
           [called |-> TRUE, result |-> FilterLowQualitySources(filtered_documents.result.docs)]
    /\ UNCHANGED <<raw_documents, filtered_documents, notFilterVars>>

FilterIdle ==
    /\ raw_documents = <<>>
    /\ filtered_documents = <<>>
    /\ refiltered_documents = <<>>

(***************************************************************************)
(* LLMQueryGenerator: structured output recovery, query analysis and       *)
(* keyword generation, called through RAGPipeline.                         *)
(*                                                                         *)
(* A keyword is a word stem and its spelling (capitalised or not);         *)
(* str.lower gives the uncapitalised spelling.  A Python value is a record *)
(* with its type; a dict carries the keyword tiers it holds (key -> list)  *)
(* and the names of its other keys.                                        *)
(***************************************************************************)
TierKeys == {"primary_keywords", "secondary_keywords", "context_keywords", "negative_keywords"}

Lower(keyword) == [keyword EXCEPT !.upper = FALSE]

\* the tiers of a generated reply: the 5th primary keyword repeats the 1st
\* capitalised, the 1st secondary the 4th primary capitalised, the 1st context
\* the 2nd secondary, the 1st negative the 1st primary capitalised
PrimaryKeyword(i) == [stem |-> ((i - 1) % 4) + 1, upper |-> i > 4]
SecondaryKeyword(j) == [stem |-> 3 + j, upper |-> j = 1]
ContextKeyword(c) == [stem |-> IF c = 1 THEN 5 ELSE 50 + c, upper |-> FALSE]
NegativeKeyword(n) == [stem |-> IF n = 1 THEN 1 ELSE 80 + n, upper |-> n = 1]

Tiers(np, ns, nc, nn) ==
    [key \in TierKeys |->
        CASE key = "primary_keywords"   -> [i \in 1..np |-> PrimaryKeyword(i)]
          [] key = "secondary_keywords" -> [j \in 1..ns |-> SecondaryKeyword(j)]
          [] key = "context_keywords"   -> [c \in 1..nc |-> ContextKeyword(c)]
          [] OTHER                      -> [n \in 1..nn |-> NegativeKeyword(n)]]

Restrict(f, S) == [x \in S |-> f[x]]
NoTiers == Restrict(Tiers(0, 0, 0, 0), {})

PyDict(tiers, other) == [type |-> "dict", tiers |-> tiers, other |-> other]
PyOther(type) == [type |-> type, tiers |-> NoTiers, other |-> {}]
PyNone == PyOther("NoneType")

\* what json.loads or ast.literal_eval does with a text
Returns(value) == [raises |-> "no", value |-> value]
Raises(exception) == [raises |-> exception, value |-> PyNone]

\* dict.get(key, [])
Get(d, key) == IF key \in DOMAIN d.tiers THEN d.tiers[key] ELSE <<>>

\* bool(dict)
Truthy(d) == DOMAIN d.tiers # {} \/ d.other # {}

(***************************************************************************)
(* A content is a text handed to _robust_json_parse, given by what the     *)
(* three library parsers and the field patterns make of that text:         *)
(*   strict    json.loads(content)                                         *)
(*   requoted  json.loads(content.replace("'", '"'))                       *)
(*   braced    content.strip() starts with { and ends with }               *)
(*   literal   ast.literal_eval(content)                                   *)
(*   fields    the fields the patterns of lines 453-496 extract            *)
(* Every text is one that _parse_json_response leaves as it is.            *)
(***************************************************************************)
Content(text, strict, requoted, braced, literal, fields) ==
    [text |-> text, strict |-> strict, requoted |-> requoted, braced |-> braced,
     literal |-> literal, fields |-> fields]

NoFields == PyDict(NoTiers, {})
SmallTiers == Tiers(2, 1, 0, 1)

\* {"primary_keywords": [...], ..., "search_confidence": 0.8}
ObjectContent(tiers) ==
    LET d == PyDict(tiers, {"search_confidence"})
    IN Content("object", Returns(d), Returns(d), TRUE, Returns(d), d)

MalformedContents == {
    \* {'primary_keywords': ['budget', 'report'], 'secondary_keywords': ['q3']}
    Content("single_quoted", Raises("JSONDecodeError"),
            Returns(PyDict(Restrict(SmallTiers, {"primary_keywords", "secondary_keywords"}), {})),
            TRUE,
            Returns(PyDict(Restrict(SmallTiers, {"primary_keywords", "secondary_keywords"}), {})),
            NoFields),
    \* {"primary_keywords": ["budget", "report"], "final": True}
    Content("python_literal", Raises("JSONDecodeError"), Raises("JSONDecodeError"), TRUE,
            Returns(PyDict(Restrict(SmallTiers, {"primary_keywords"}), {"final"})),
            PyDict(Restrict(SmallTiers, {"primary_keywords"}), {})),
    \* {"primary_keywords": ["budget", "report"], "secondary_keywords": ["q3"
    Content("truncated", Raises("JSONDecodeError"), Raises("JSONDecodeError"), FALSE,
            Raises("SyntaxError"),
            PyDict(Restrict(SmallTiers, {"primary_keywords"}), {})),
    \* {primary: 1, "primary_keywords": ["budget", "report"]}
    Content("unquoted_key", Raises("JSONDecodeError"), Raises("JSONDecodeError"), TRUE,
            Raises("ValueError"),
            PyDict(Restrict(SmallTiers, {"primary_keywords"}), {})),
    \* {"search_confidence": 0.8, "x": }
    Content("confidence_only", Raises("JSONDecodeError"), Raises("JSONDecodeError"), TRUE,
            Raises("SyntaxError"), PyDict(NoTiers, {"search_confidence"})),
    \* I cannot help with that
    Content("prose", Raises("JSONDecodeError"), Raises("JSONDecodeError"), FALSE,
            Raises("SyntaxError"), NoFields),
    \* {'budget', 'report'}
    Content("set_literal", Raises("JSONDecodeError"), Raises("JSONDecodeError"), TRUE,
            Returns(PyOther("set")), NoFields),
    \* {["a"]: 1, "primary_keywords": ["budget", "report"]}
    Content("unhashable_key", Raises("JSONDecodeError"), Raises("JSONDecodeError"), TRUE,
            Raises("TypeError"),
            PyDict(Restrict(SmallTiers, {"primary_keywords"}), {})) }

NonObjectContents == {
    \* ["budget", "report"]
    Content("array", Returns(PyOther("list")), Returns(PyOther("list")), FALSE,
            Returns(PyOther("list")), NoFields),
    \* ['budget', 'report']
    Content("single_quoted_array", Raises("JSONDecodeError"), Returns(PyOther("list")), FALSE,
            Returns(PyOther("list")), NoFields),
    \* null
    Content("null", Returns(PyNone), Returns(PyNone), FALSE, Raises("ValueError"), NoFields),
    \* 42
    Content("number", Returns(PyOther("int")), Returns(PyOther("int")), FALSE,
            Returns(PyOther("int")), NoFields),
    \* {}
    Content("empty_object", Returns(PyDict(NoTiers, {})), Returns(PyDict(NoTiers, {})), TRUE,
            Returns(PyDict(NoTiers, {})), NoFields),
    \* {"answer": "none"}
    Content("other_object", Returns(PyDict(NoTiers, {"answer"})),
            Returns(PyDict(NoTiers, {"answer"})), TRUE,
            Returns(PyDict(NoTiers, {"answer"})), NoFields) }

\* llm_query_generator.py:426-434: the native-literal strategy goes on to the
\* next one on ValueError, SyntaxError or a value that is not a dict
LiteralFallsThrough(literal) ==
    \/ literal.raises \in {"ValueError", "SyntaxError"}
    \/ literal.raises = "no" /\ literal.value.type # "dict"

\* llm_query_generator.py:408-505.  strategy is the strategy that returned
\* (0 when none did); raises names the exception that left the function.
robust_json_parse(content) ==
    IF content.strict.raises = "no"
        THEN [raises |-> "no", value |-> content.strict.value, strategy |-> 1]
    ELSE IF content.requoted.raises = "no"
        THEN [raises |-> "no", value |-> content.requoted.value, strategy |-> 2]
    ELSE IF content.braced /\ content.literal.raises = "no" /\ content.literal.value.type = "dict"
        THEN [raises |-> "no", value |-> content.literal.value, strategy |-> 3]
    ELSE IF content.braced /\ ~LiteralFallsThrough(content.literal)
        THEN [raises |-> content.literal.raises, value |-> PyNone, strategy |-> 0]
    ELSE IF Truthy(content.fields)
        THEN [raises |-> "no", value |-> content.fields, strategy |-> 4]
    ELSE [raises |-> "no", value |-> PyNone, strategy |-> 0]

\* {"intent": ..., "complexity": ..., "search_scope": ..., "search_strategy": ...}
AnalysisObject ==
    LET d == PyDict(NoTiers, {"intent", "complexity", "search_scope", "search_strategy"})
    IN Content("analysis_object", Returns(d), Returns(d), TRUE, Returns(d), NoFields)

TagOf(d, key) == IF key \in d.other THEN "from_reply" ELSE "absent"

\* the four tags of an analysis the reply was parsed into
AnalysisOf(d) ==
    [intent |-> TagOf(d, "intent"), complexity |-> TagOf(d, "complexity"),
     search_scope |-> TagOf(d, "search_scope"), search_strategy |-> TagOf(d, "search_strategy")]

\* llm_query_generator.py:64-73, the four tags
DefaultAnalysis ==
    [intent |-> "information", complexity |-> "medium",
     search_scope |-> "medium", search_strategy |-> "comprehensive"]

\* llm_query_generator.py:25
NoLlmAnalysis ==
    [intent |-> "unknown", complexity |-> "medium",
     search_scope |-> "absent", search_strategy |-> "absent"]

\* llm_query_generator.py:81
NoLlmKeywords == PyDict(Tiers(0, 0, 0, 0), {})

AnalysisContents == {AnalysisObject} \cup MalformedContents \cup NonObjectContents

TierChoices ==
    {Tiers(np, ns, nc, nn) : np \in 0..MaxPrimary, ns \in 0..MaxSecondary,
                             nc \in 0..MaxContext, nn \in 0..MaxNegative}

KeywordContents ==
    {ObjectContent(t) : t \in TierChoices} \cup MalformedContents \cup NonObjectContents

\* llm.invoke returns a reply or raises
LlmResponses(contents) ==
    {[kind |-> "reply", content |-> c] : c \in contents}
    \cup {[kind |-> "error", content |-> AnalysisObject]}

\* llm_query_generator.py:50-74 after the await: the reply is recovered, or
\* any exception gives the default
AnalysisFrom(response) ==
    IF response.kind = "error" THEN DefaultAnalysis
    ELSE LET parsed == robust_json_parse(response.content)
         IN IF parsed.raises # "no" THEN DefaultAnalysis
            ELSE IF parsed.value.type = "NoneType" THEN DefaultAnalysis     \* line 56
            ELSE IF parsed.value.type # "dict" THEN DefaultAnalysis       \* line 59: no get
            ELSE AnalysisOf(parsed.value)

\* llm_query_generator.py:121-155 after the await: the parsed reply is
\* returned as it is; any exception becomes a RuntimeError
HierarchicalFrom(response) ==
    IF response.kind = "error" THEN [raised |-> TRUE, value |-> PyNone]
    ELSE LET parsed == robust_json_parse(response.content)
         IN IF parsed.raises # "no" THEN [raised |-> TRUE, value |-> PyNone]
            ELSE IF parsed.value.type = "NoneType" THEN [raised |-> TRUE, value |-> PyNone]
            ELSE IF parsed.value.type # "dict" THEN [raised |-> TRUE, value |-> PyNone]
            ELSE [raised |-> FALSE, value |-> parsed.value]

KeywordCap == 20

\* keywords compared as they are spelled
DedupKey_CaseSensitive(keyword) == keyword

\* llm_query_generator.py:177, 179 and rag_pipeline.py:116, 118: keyword.lower()
DedupKey(keyword) == Lower(keyword)

\* llm_query_generator.py:174-179 and rag_pipeline.py:112-118
RECURSIVE UniqueKeywords(_, _, _)
UniqueKeywords(all_keywords, unique_keywords, seen) ==
    IF all_keywords = <<>> THEN unique_keywords
    ELSE LET keyword == Head(all_keywords)
         IN IF DedupKey(keyword) \notin seen
            THEN UniqueKeywords(Tail(all_keywords), Append(unique_keywords, keyword),
                                seen \cup {DedupKey(keyword)})
            ELSE UniqueKeywords(Tail(all_keywords), unique_keywords, seen)

\* llm_query_generator.py:167-170
FlattenTiers(hierarchical) ==
    Get(hierarchical, "primary_keywords") \o Get(hierarchical, "secondary_keywords")
        \o Get(hierarchical, "context_keywords")

\* llm_query_generator.py:166-185, then rag_pipeline.py:107-135 on its result
KeywordData(hierarchical, query_analysis_) ==
    LET diverse == Take(UniqueKeywords(FlattenTiers(hierarchical), <<>>, {}), KeywordCap)
    IN [raised |-> FALSE,
        all_keywords |-> Take(UniqueKeywords(diverse, <<>>, {}), KeywordCap),
        hierarchical |-> hierarchical,
        analysis |-> query_analysis_]

KeywordFailure ==
    [raised |-> TRUE, all_keywords |-> <<>>, hierarchical |-> PyNone, analysis |-> DefaultAnalysis]

NoKeywordData ==
    [raised |-> FALSE, all_keywords |-> <<>>, hierarchical |-> PyNone, analysis |-> DefaultAnalysis]

\* rag_pipeline.py:57-87: no generator, or a generator around the model;
\* LLMQueryGenerator itself (llm_query_generator.py:16-17) takes any llm, None
\* included
QueryGenerators == {"None", "without_llm", "with_llm"}

KeywordInit ==
    /\ query_generator \in QueryGenerators
    /\ kpc = "call"
    /\ intent_analysis = DefaultAnalysis
    /\ responses = <<>>
    /\ parse_calls = <<>>
    /\ keyword_data = NoKeywordData

ParseCall(response) ==
    IF response.kind = "reply"
    THEN <<[content |-> response.content, result |-> robust_json_parse(response.content)]>>
    ELSE <<>>

\* rag_pipeline.py:95-104 and llm_query_generator.py:157-162, 20-51: up to the
\* first await.  Without a model no call is awaited and the whole keyword
\* generation runs through (llm_query_generator.py:23-25, 79-81, 166-185).
generate_diverse_keywords ==
    /\ kpc = "call"
    /\ CASE query_generator = "None" ->
                /\ keyword_data' = KeywordFailure
                /\ kpc' = "raised"
                /\ UNCHANGED intent_analysis
         [] query_generator = "without_llm" ->
                /\ intent_analysis' = NoLlmAnalysis
                /\ keyword_data' = KeywordData(NoLlmKeywords, NoLlmAnalysis)
                /\ kpc' = "returned"
         [] OTHER ->
                /\ kpc' = "analysis"
                /\ UNCHANGED <<intent_analysis, keyword_data>>
    /\ UNCHANGED <<query_generator, responses, parse_calls, notKeywordVars>>

\* llm_query_generator.py:50-74 and 157-165, 76-125: the analysis reply
\* arrives, the analysis is settled and the keyword prompt is sent
AnalysisAnswered ==
    /\ kpc = "analysis"
    /\ \E response \in LlmResponses(AnalysisContents) :
         /\ intent_analysis' = AnalysisFrom(response)
         /\ responses' = Append(responses, response)
         /\ parse_calls' = parse_calls \o ParseCall(response)
    /\ kpc' = "keywords"
    /\ UNCHANGED <<query_generator, keyword_data, notKeywordVars>>

\* llm_query_generator.py:121-188 and rag_pipeline.py:104-139: the keyword
\* reply arrives; the keyword data are returned to the search or a
\* RuntimeError is raised
KeywordsAnswered ==
    /\ kpc = "keywords"
    /\ \E response \in LlmResponses(KeywordContents) :
         LET hierarchical == HierarchicalFrom(response)
         IN /\ responses' = Append(responses, response)
            /\ parse_calls' = parse_calls \o ParseCall(response)
            /\ IF hierarchical.raised
               THEN keyword_data' = KeywordFailure /\ kpc' = "raised"
               ELSE /\ keyword_data' = KeywordData(hierarchical.value, intent_analysis)
                    /\ kpc' = "returned"
    /\ UNCHANGED <<query_generator, intent_analysis, notKeywordVars>>

\* main.py:137-162: with the keyword data returned the search goes on to the
\* connectors; a raised error leaves process_search_with_progress (line 314)
search_with_keywords ==
    /\ kpc = "returned"
    /\ kpc' = "mcp_search"
    /\ UNCHANGED <<query_generator, intent_analysis, responses, parse_calls, keyword_data,
                   notKeywordVars>>

KeywordIdle ==
    /\ query_generator = "None"
    /\ kpc = "unused"
    /\ intent_analysis = <<>>
    /\ responses = <<>>
    /\ parse_calls = <<>>
    /\ keyword_data = <<>>

(***************************************************************************)
(* AdaptiveFAISSOptimizer: quality metrics of a final result set.          *)
(* A result is its metadata source and the length of its page_content.     *)
(* The floats of the code are kept as exact fractions num / den; the       *)
(* count score and the weights are counted in thousandths, a feedback in   *)
(* tenths.                                                                 *)
(***************************************************************************)
\* n results over the given numbers of distinct sources and lengths
Results(n, sources, lengths) ==
    [i \in 1..n |-> [source |-> (i - 1) % sources, length |-> (i - 1) % lengths]]

Abs(x) == IF x < 0 THEN -x ELSE x

\* adaptive_faiss_optimizer.py:251-276
calculate_diversity(results) ==
    IF Len(results) <= 1 THEN [num |-> 0, den |-> 1]
    ELSE LET sources == {results[i].source : i \in 1..Len(results)}
             lengths == {results[i].length : i \in 1..Len(results)}
             length_kinds == IF Cardinality(lengths) > 1 THEN Cardinality(lengths) ELSE 0
         IN \* (sources / n + length_kinds / n) / 2
            [num |-> Cardinality(sources) + length_kinds, den |-> 2 * Len(results)]

\* adaptive_faiss_optimizer.py:312-317: 0.4 * 1.0, or
\* 0.4 * (1.0 - abs(result_count - 6.5) / 10), in thousandths
CountScore(result_count) ==
    IF 3 <= result_count /\ result_count <= 10 THEN 400
    ELSE IF result_count > 0 THEN 400 - 20 * Abs(2 * result_count - 13)
    ELSE 0

\* adaptive_faiss_optimizer.py:306-330: score / weights
calculate_quality_score(metrics) ==
    LET diversity == metrics.diversity_score
        given == metrics.user_feedback.given
        weights == 400 + 300 + (IF given THEN 300 ELSE 0)
    IN [num |-> CountScore(metrics.result_count) * diversity.den
                + 300 * diversity.num
                + (IF given THEN 30 * metrics.user_feedback.tenths * diversity.den ELSE 0),
        den |-> weights * diversity.den]

\* adaptive_faiss_optimizer.py:176-186
QualityMetrics(results, user_feedback) ==
    LET measured == [result_count |-> Len(results),
                     diversity_score |-> calculate_diversity(results),
                     user_feedback |-> user_feedback]
    IN [called |-> TRUE,
        result_count |-> measured.result_count,
        diversity_score |-> measured.diversity_score,
        user_feedback |-> user_feedback,
        overall_quality |-> calculate_quality_score(measured)]

\* user_feedback: Optional[float], None or a value of [0,1]
NoFeedback == [given |-> FALSE]
Feedbacks == {[given |-> TRUE, tenths |-> f] : f \in 0..10}

QualityInit ==
    /\ \E n \in 0..MaxResults, sources \in 1..MaxSources, lengths \in 1..MaxLengths :
         final_documents = Results(n, sources, lengths)
    /\ feedback \in Feedbacks \cup {NoFeedback}
    /\ quality_metrics = NotCalled

\* adaptive_faiss_optimizer.py:172-186 with a user_feedback
score_search_quality ==
    /\ ~quality_metrics.called
    /\ feedback.given
    /\ quality_metrics' = QualityMetrics(final_documents, feedback)
    /\ UNCHANGED <<final_documents, feedback, notQualityVars>>

\* adaptive_faiss_optimizer.py:172-186 with user_feedback left at None
score_without_feedback ==
    /\ ~quality_metrics.called
    /\ ~feedback.given
    /\ quality_metrics' = QualityMetrics(final_documents, feedback)
    /\ UNCHANGED <<final_documents, feedback, notQualityVars>>

QualityIdle ==
    /\ final_documents = <<>>
    /\ feedback = NoFeedback
    /\ quality_metrics = <<>>

(***************************************************************************)
(* RAGPipeline._final_relevance_check on its own: any non-empty candidate  *)
(* list, and the generation service missing (self.llm is None), raising or *)
(* replying.                                                               *)
(***************************************************************************)
CheckResponses == Responses \cup {[kind |-> "none", content |-> <<>>]}

CheckInit ==
    /\ \E n \in 1..MaxCandidates : check_documents = [i \in 1..n |-> NChunks + 1 - i]
    /\ check_response \in CheckResponses
    /\ check_result = NotCalled

\* rag_pipeline.py:605-610
check_without_llm ==
    /\ ~check_result.called
    /\ check_response.kind = "none"
    /\ check_result' = [called |-> TRUE,
                        result |-> final_relevance_check(check_documents, check_response)]
    /\ UNCHANGED <<check_documents, check_response, notCheckVars>>

\* rag_pipeline.py:612-665
check_with_llm ==
    /\ ~check_result.called
    /\ check_response.kind # "none"
    /\ check_result' = [called |-> TRUE,
                        result |-> final_relevance_check(check_documents, check_response)]
    /\ UNCHANGED <<check_documents, check_response, notCheckVars>>

CheckIdle ==
    /\ check_documents = <<>>
    /\ check_response = <<>>
    /\ check_result = <<>>

(***************************************************************************)
(* One search request as its caller sees it: search_endpoint (POST        *)
(* /search) and websocket_search with process_search_with_progress.        *)
(* Message texts are sequences of pieces, joined as the f-strings join     *)
(* them; the Japanese literals of main.py are named in ASCII.              *)
(***************************************************************************)
ZeroResultsRephrase == <<"zero results, change the keywords and search again">>  \* main.py:169, 348
ZeroResults == <<"zero results">>                                                \* main.py:171
ErrorDuringSearch == <<"error during search: ">>                                 \* main.py:318
GeneratorNotAvailable == <<"LLM Query Generator not available - cannot generate keywords">>
FailedToGenerate == <<"Failed to generate keywords with LLM: ">>
AGRFailed == <<"AGR keyword generation failed: ">>                               \* llm_query_generator.py:192

\* what str(e) of the exception caught in generate_diverse_keywords reads
Causes == {<<"hierarchical keyword generation failed: ", "All JSON parsing methods failed">>,
           <<"hierarchical keyword generation failed: ", "service error">>}

RuntimeError(message) == [type |-> "RuntimeError", status_code |-> 0, detail |-> message]
HTTPException(status_code, detail) ==
    [type |-> "HTTPException", status_code |-> status_code, detail |-> detail]

\* str(e).  A RuntimeError prints its message.  HTTPException is built with
\* keyword arguments only, so its args are empty: a Starlette that defines
\* __str__ prints "<status_code>: <detail>", one that does not prints "".
\* The repository pins no version.
Str_Dropped(e, has_str) == <<>>

Str(e, has_str) ==
    IF e.type = "RuntimeError" THEN e.detail
    ELSE IF has_str THEN <<ToString(e.status_code), ": ">> \o e.detail
    ELSE <<>>

Collaborators ==
    [keywords : {"no_generator", "raises", "generated"},
     cause : Causes,
     fetched : 0..MaxFetched,
     later : {"completes", "raises"},
     has_str : BOOLEAN]

KeywordGenerationFails(c) == c.keywords # "generated"

\* RAGPipeline.generate_hierarchical_keywords, the exception it raises
KeywordError(c) ==
    IF c.keywords = "no_generator"
    THEN RuntimeError(GeneratorNotAvailable)
    ELSE RuntimeError(FailedToGenerate \o AGRFailed \o c.cause)

LaterError == RuntimeError(<<"vector store error">>)

\* except Exception of search_endpoint: every exception, the HTTPException
\* of line 348 included, becomes a 500 whose detail is str(e)
ErrorResponse(e, has_str) == [status_code |-> 500, detail |-> Str(e, has_str)]

SearchResult(c) == [status_code |-> 200, detail |-> <<"report", ToString(c.fetched)>>]

Progress(stage) == [event |-> "search_progress", message |-> <<stage>>]
ErrorEvent(message) == [event |-> "error", message |-> message]
SearchComplete(c) == [event |-> "search_complete", message |-> <<"report", ToString(c.fetched)>>]

\* except Exception of process_search_with_progress, then, the exception
\* raised again, except Exception of websocket_search
ErrorEvents(e, has_str) ==
    <<ErrorEvent(ErrorDuringSearch \o Str(e, has_str)), ErrorEvent(Str(e, has_str))>>

EndpointInit ==
    /\ endpoint \in {"rest", "websocket"}
    /\ epc = "keywords"
    /\ collaborators \in Collaborators
    /\ http_response = <<>>
    /\ sent = <<>>

\* POST /search up to the keyword generation
search_endpoint_keywords ==
    /\ endpoint = "rest" /\ epc = "keywords"
    /\ IF KeywordGenerationFails(collaborators)
       THEN /\ http_response' = ErrorResponse(KeywordError(collaborators), collaborators.has_str)
            /\ epc' = "done"
       ELSE /\ epc' = "mcp"
            /\ UNCHANGED http_response
    /\ UNCHANGED <<endpoint, collaborators, sent, notEndpointVars>>

\* the connector search and the test for no documents
search_endpoint_mcp ==
    /\ endpoint = "rest" /\ epc = "mcp"
    /\ IF collaborators.fetched = 0
       THEN /\ http_response' = ErrorResponse(HTTPException(404, ZeroResultsRephrase),
                                               collaborators.has_str)
            /\ epc' = "done"
       ELSE /\ epc' = "report"
            /\ UNCHANGED http_response
    /\ UNCHANGED <<endpoint, collaborators, sent, notEndpointVars>>

\* index build, retrieval and report
search_endpoint_report ==
    /\ endpoint = "rest" /\ epc = "report"
    /\ http_response' = IF collaborators.later = "raises"
                        THEN ErrorResponse(LaterError, collaborators.has_str)
                        ELSE SearchResult(collaborators)
    /\ epc' = "done"
    /\ UNCHANGED <<endpoint, collaborators, sent, notEndpointVars>>

\* /ws/search: step 1 is announced, then the keywords are generated
process_search_keywords ==
    /\ endpoint = "websocket" /\ epc = "keywords"
    /\ IF KeywordGenerationFails(collaborators)
       THEN /\ sent' = sent \o <<Progress("keyword_generation")>>
                            \o ErrorEvents(KeywordError(collaborators), collaborators.has_str)
            /\ epc' = "done"
       ELSE /\ sent' = sent \o <<Progress("keyword_generation")>>
            /\ epc' = "mcp"
    /\ UNCHANGED <<endpoint, collaborators, http_response, notEndpointVars>>

\* step 2 is announced, the connectors are searched; with no documents an
\* error event is sent and the HTTPException raised after it is caught by
\* the function's own except clause
process_search_mcp ==
    /\ endpoint = "websocket" /\ epc = "mcp"
    /\ IF collaborators.fetched = 0
       THEN /\ sent' = sent \o <<Progress("mcp_search"), ErrorEvent(ZeroResultsRephrase)>>
                            \o ErrorEvents(HTTPException(404, ZeroResults), collaborators.has_str)
            /\ epc' = "done"
       ELSE /\ sent' = sent \o <<Progress("mcp_search")>>
            /\ epc' = "report"
    /\ UNCHANGED <<endpoint, collaborators, http_response, notEndpointVars>>

\* steps 4 to 7; a failure here is taken at the index build, after step 4
\* was announced
process_search_report ==
    /\ endpoint = "websocket" /\ epc = "report"
    /\ sent' = IF collaborators.later = "raises"
               THEN sent \o <<Progress("vectorization")>>
                         \o ErrorEvents(LaterError, collaborators.has_str)
               ELSE sent \o <<Progress("vectorization"), Progress("rag_search"),
                              Progress("rag_search_complete"), Progress("report_generation"),
                              SearchComplete(collaborators)>>
    /\ epc' = "done"
    /\ UNCHANGED <<endpoint, collaborators, http_response, notEndpointVars>>

EndpointIdle ==
    /\ endpoint = "unused"
    /\ epc = "unused"
    /\ collaborators = <<>>
    /\ http_response = <<>>
    /\ sent = <<>>

RetrIdle ==
    /\ rpc = "unused"
    /\ inp = <<>>
    /\ next_query = 0
    /\ relevant_docs_with_scores = <<>>
    /\ unique_docs = <<>>
    /\ metadata = <<>>
    /\ max_docs_for_check = 0
    /\ relevant_docs = <<>>
    /\ ret = <<>>
    /\ failed_queries = {}

PipeIdle ==
    /\ vector_store = NoIndex
    /\ retriever = NoIndex
    /\ pc = <<>>
    /\ built = <<>>
    /\ reads = <<>>
    /\ stages = <<>>
    /\ rag_queries = <<>>
    /\ queries_left = <<>>
    /\ outcome = <<>>

UnitIdle == PlanIdle /\ FilterIdle /\ KeywordIdle /\ QualityIdle /\ CheckIdle /\ EndpointIdle

(***************************************************************************)
(* The specifications.                                                     *)
(***************************************************************************)
InitHistory == HistInit /\ PipeIdle /\ RetrIdle /\ UnitIdle

NextHistory ==
    \/ analyze_search_quality
    \/ record_search_success

SpecHistory == InitHistory /\ [][NextHistory]_vars

InitPipe == HistInit /\ PipeInit /\ RetrIdle /\ UnitIdle

NextSerial ==
    \E s \in Searches : StartSearch(s, TRUE) \/ SearchStep(s)

SpecSerial == InitPipe /\ [][NextSerial]_vars

NextConc ==
    \E s \in Searches : StartSearch(s, FALSE) \/ SearchStep(s)

SpecConc == InitPipe /\ [][NextConc]_vars

InitRetrieve == HistInit /\ PipeIdle /\ RetrInit /\ UnitIdle

NextRetrieve ==
    \/ semantic_search
    \/ QueryReturns
    \/ QueryFails
    \/ ReturnFused
    \/ AskRelevance
    \/ ConfigReadFails
    \/ RelevanceAnswered
    \/ FallbackQueryReturns
    \/ FallbackQueryFails
    \/ fallback_semantic_search

SpecRetrieve == InitRetrieve /\ [][NextRetrieve]_vars

InitPlan == HistInit /\ PipeIdle /\ RetrIdle /\ PlanInit /\ FilterIdle /\ KeywordIdle /\ QualityIdle /\ CheckIdle /\ EndpointIdle

NextPlan ==
    \/ get_adaptive_search_params
    \/ optimize_chunk_strategy

SpecPlan == InitPlan /\ [][NextPlan]_vars

InitFilter == HistInit /\ PipeIdle /\ RetrIdle /\ PlanIdle /\ FilterInit /\ KeywordIdle /\ QualityIdle /\ CheckIdle /\ EndpointIdle

NextFilter ==
    \/ filter_low_quality_sources
    \/ filter_filtered_documents

SpecFilter == InitFilter /\ [][NextFilter]_vars

InitKeywords == HistInit /\ PipeIdle /\ RetrIdle /\ PlanIdle /\ FilterIdle /\ KeywordInit /\ QualityIdle /\ CheckIdle /\ EndpointIdle

NextKeywords ==
    \/ generate_diverse_keywords
    \/ AnalysisAnswered
    \/ KeywordsAnswered
    \/ search_with_keywords

SpecKeywords == InitKeywords /\ [][NextKeywords]_vars

InitQuality ==
    HistInit /\ PipeIdle /\ RetrIdle /\ PlanIdle /\ FilterIdle /\ KeywordIdle /\ QualityInit /\ CheckIdle /\ EndpointIdle

NextQuality ==
    \/ score_search_quality
    \/ score_without_feedback

SpecQuality == InitQuality /\ [][NextQuality]_vars

InitCheck ==
    /\ HistInit /\ PipeIdle /\ RetrIdle
    /\ PlanIdle /\ FilterIdle /\ KeywordIdle /\ QualityIdle /\ CheckInit /\ EndpointIdle

NextCheck ==
    \/ check_without_llm
    \/ check_with_llm

SpecCheck == InitCheck /\ [][NextCheck]_vars

InitEndpoint ==
    /\ HistInit /\ PipeIdle /\ RetrIdle
    /\ PlanIdle /\ FilterIdle /\ KeywordIdle /\ QualityIdle /\ CheckIdle /\ EndpointInit

NextEndpoint ==
    \/ search_endpoint_keywords
    \/ search_endpoint_mcp
    \/ search_endpoint_report
    \/ process_search_keywords
    \/ process_search_mcp
    \/ process_search_report

SpecEndpoint == InitEndpoint /\ [][NextEndpoint]_vars

(***************************************************************************)
(* Claims.                                                                 *)
(***************************************************************************)
Completed == {s \in Searches : pc[s] = "done"}

\* C1: with searches run one at a time, every chunk a search retrieves comes
\* from the index built from that search's own documents; a search that
\* builds no index retrieves nothing from an earlier search's index.
C1_ChunksFromOwnSearch == \A s \in Searches : reads[s] \subseteq {s}

\* C2: with searches interleaved at their awaits, every query of a search
\* that built an index reads that index, never one rebuilt by another search.
C2_QueriesReadOwnIndex == \A s \in Searches : built[s] => reads[s] \subseteq {s}

\* C3: a search that completes has run the stages analysis, keywords,
\* connectors, filter, plan, build, retrieve, refine, record, in this order,
\* none skipped.
C3_AllStagesInOrder == \A s \in Searches : pc[s] = "done" => stages[s] = StageOrder

\* C4: between record operations neither search history is longer than 100.
C4_HistoryCapped ==
    /\ Len(optimizer_history) <= HistoryCap
    /\ Len(generator_history) <= HistoryCap

\* C4 witness: both histories have overflowed and been cut back.
C4_Witness ==
    /\ optimizer_appends > HistoryCap
    /\ generator_appends > HistoryCap
    /\ Len(optimizer_history) < optimizer_appends
    /\ Len(generator_history) < generator_appends

\* C5: the search history holds exactly one record per completed search and
\* none for a search that failed or was abandoned.
C5_OneRecordPerCompletedSearch == Len(optimizer_history) = Cardinality(Completed)

Returned == rpc = "done"
Score(c) == metadata[c].similarity_score
Candidates == Take(unique_docs, max_docs_for_check)

SortedDescending(docs) ==
    \A i, j \in 1..Len(docs) : i < j => Score(docs[i]) >= Score(docs[j])

\* C6 as stated: every list semantic_search returns is sorted by similarity
\* score, descending.
C6_ReturnedSorted == Returned => SortedDescending(ret.docs)

\* C6 amended: a list returned from the scored path is sorted by similarity
\* score, descending, unless the relevance check selected it by reply.
C6_ScoredPathSorted ==
    Returned /\ ret.path = "scored" /\ ret.refine # "selected" => SortedDescending(ret.docs)

\* C6 witness: hits that arrived out of score order were returned, sorted.
C6_Witness ==
    /\ Returned /\ ret.path = "scored" /\ ret.refine # "selected"
    /\ Len(ret.docs) >= 3
    /\ \E i \in 1..(Len(relevant_docs_with_scores) - 1) :
          relevant_docs_with_scores[i].similarity_score
              < relevant_docs_with_scores[i + 1].similarity_score

\* C7: no two chunks of a returned list share a content fingerprint.
C7_NoSharedFingerprint ==
    Returned => \A i, j \in 1..Len(ret.docs) :
                    i # j => Fingerprint(ret.docs[i]) # Fingerprint(ret.docs[j])

AllAboveFloor(docs) == \A i \in 1..Len(docs) : Score(docs[i]) >= inp.threshold

\* C8 as stated: on every path by which semantic_search returns a list, every
\* chunk carries a similarity score at or above the floor.
C8_AllReturnedAboveFloor == Returned => AllAboveFloor(ret.docs)

\* C8 amended: every chunk of a list returned otherwise than by the unscored
\* fallback carries a similarity score at or above the floor.
C8_ScoredPathAboveFloor == Returned /\ ret.path # "fallback" => AllAboveFloor(ret.docs)

\* C8 witness: one query answered, some of its hits fell below the floor and
\* the others were returned.
C8_Witness ==
    /\ Returned /\ ret.path = "scored" /\ inp.nq = 1
    /\ ret.docs # <<>>
    /\ Len(relevant_docs_with_scores) < Len(similarity_search_with_score(1, inp.store, inp.k))

FinalCheckEnabled == inp.original_query # "none"

RefinerRule ==
    /\ ret.asked => FinalCheckEnabled /\ Len(unique_docs) > RelevanceCheckMin
    /\ ~ret.asked => ret.docs = Take(unique_docs, OutputCap)

\* C9 as stated: the generation service is asked only with the final check
\* enabled and more than 10 fused candidates; in every other case the fused
\* candidates are returned unchanged, in order, up to the output cap.
C9_RefinerOnlyWhenTriggered == Returned => RefinerRule

\* C9 amended: the same, for every return other than by the unscored fallback.
C9_RefinerOnlyWhenTriggeredScored == Returned /\ ret.path # "fallback" => RefinerRule

\* C9 witness: more than 10 fused candidates, the service not asked, and the
\* fused list returned up to the cap, which cut it.
C9_Witness ==
    /\ Returned /\ ret.path = "scored" /\ ~ret.asked
    /\ Len(unique_docs) > OutputCap
    /\ Len(ret.docs) = OutputCap

ReplyTokens == SplitOn(Strip(ret.reply), ",", <<>>)
Usable(token) == ParseInt(token).ok /\ ParseInt(token).value \in 0..(Len(Candidates) - 1)
UsableTokens == SelectSeq(ReplyTokens, Usable)

\* C10: when the relevance check parsed a reply, its output is the candidates
\* at the reply's usable indices, in the reply's order; with no usable index
\* it is the first 5 candidates.  The two replies of the scenario give
\* [2, 5, 9, 1] and the first 5.
C10_RefinerOutput ==
    Returned /\ ret.refine \in {"selected", "none_selected"} =>
        /\ ret.refine = "selected" <=> UsableTokens # <<>>
        /\ ret.refine = "selected" =>
              /\ Len(ret.docs) = Len(UsableTokens)
              /\ \A j \in 1..Len(ret.docs) :
                    ret.docs[j] = Candidates[ParseInt(UsableTokens[j]).value + 1]
        /\ ret.refine = "none_selected" => ret.docs = Take(Candidates, TopWhenNoneSelected)
        /\ ret.reply = <<"2", ",", "5", ",", "9", ",", "1">> /\ Len(Candidates) >= 10 =>
              ret.docs = <<Candidates[3], Candidates[6], Candidates[10], Candidates[2]>>
        /\ ret.reply = <<"b", "a", "n", "a", "n", "a">> => ret.docs = Take(Candidates, 5)

\* C10 witness: a reply with a usable, an out-of-range and a non-numeric
\* token selected fewer documents than it has tokens, out of candidate order.
C10_Witness ==
    /\ Returned /\ ret.refine = "selected"
    /\ Len(ret.docs) >= 2
    /\ Len(ret.docs) < Len(ReplyTokens)
    /\ \E j \in 1..(Len(ret.docs) - 1) : Score(ret.docs[j]) < Score(ret.docs[j + 1])

\* C11 as stated: every plan has 1 <= k <= 15 and 5 <= fetch_k <= 100.
C11_ParamsInRange ==
    search_params.called =>
        /\ 1 <= search_params.params.k /\ search_params.params.k <= 15
        /\ 5 <= search_params.params.fetch_k /\ search_params.params.fetch_k <= 100

\* C11 amended: every plan has 1 <= k <= 15 and fetch_k <= 100, and fetch_k
\* is at least 5 or, for a corpus of fewer than 5 chunks, the corpus size.
C11_ParamsInRangeOfCorpus ==
    search_params.called =>
        /\ 1 <= search_params.params.k /\ search_params.params.k <= 15
        /\ Min(5, doc_count) <= search_params.params.fetch_k
        /\ search_params.params.fetch_k <= 100

\* C11 witness: a small corpus cut both parameters, k down to its least value.
C11_Witness ==
    /\ search_params.called
    /\ doc_count < 2
    /\ search_params.params.k = 1
    /\ search_params.params.k < BaseSearchParams(query_analysis.intent).k

\* C12: every chunk strategy has chunk_overlap <= chunk_size / 2, complex
\* queries included.
C12_OverlapAtMostHalf ==
    chunk_config.called =>
        2 * chunk_config.config.chunk_overlap <= chunk_config.config.chunk_size

\* C12 witness: a complex query had its overlap multiplied by 1.5.
C12_Witness ==
    /\ chunk_config.called
    /\ query_analysis.complexity = "complex"
    /\ 2 * chunk_config.config.chunk_overlap
           = 3 * BaseChunkConfig(query_analysis.intent).chunk_overlap

\* C13: the quality filter applied to its own output returns that output
\* unchanged: the same documents in the same order.
C13_FilterIdempotent ==
    refiltered_documents.called =>
        refiltered_documents.result.docs = filtered_documents.result.docs

\* C13 witness: the first pass removed a document and kept one whose
\* predicates raise and one that passes; the second pass has run.
C13_Witness ==
    /\ refiltered_documents.called
    /\ Len(filtered_documents.result.docs) = 2
    /\ Len(raw_documents) = 3
    /\ \E i, j \in 1..2 : /\ PredicateRaises(filtered_documents.result.docs[i])
                           /\ ~PredicateRaises(filtered_documents.result.docs[j])

KeptByFilter(doc) == PredicateRaises(doc) \/ ~Removed(doc)

\* C14: the quality filter never raises; its output is the input without the
\* documents a predicate removes, every document whose predicates raise being
\* kept and the documents after it filtered as they would be without it.
C14_FilterFailsOpen ==
    filtered_documents.called =>
        /\ ~filtered_documents.result.raised
        /\ filtered_documents.result.docs = SelectSeq(raw_documents, KeptByFilter)

\* C14 witness: a document whose predicates raise, although a predicate that
\* was not reached would remove it, was kept; the document after it was
\* removed and the one after that kept.
C14_Witness ==
    /\ filtered_documents.called
    /\ Len(raw_documents) = 3
    /\ PredicateRaises(raw_documents[1]) /\ raw_documents[1].url = "social"
    /\ ~PredicateRaises(raw_documents[2]) /\ Removed(raw_documents[2])
    /\ filtered_documents.result.docs = <<raw_documents[1], raw_documents[3]>>


(***************************************************************************)
(* Keyword generation, query analysis and structured output recovery       *)
(* (SpecKeywords).                                                         *)
(***************************************************************************)
KeywordsReturned == kpc \in {"returned", "mcp_search"}

TierLen(key) == Len(Get(keyword_data.hierarchical, key))

\* C15: every keyword hierarchy that keyword generation returns has at most
\* 4 primary, at most 8 secondary, at most 5 context and at most 3 negative
\* keywords, whatever the text-generation service replied.
C15_TiersCapped ==
    KeywordsReturned =>
        /\ TierLen("primary_keywords") <= 4
        /\ TierLen("secondary_keywords") <= 8
        /\ TierLen("context_keywords") <= 5
        /\ TierLen("negative_keywords") <= 3

\* position at which a keyword is first seen in a list, case ignored
FirstSeen(list, keyword) ==
    CHOOSE i \in 1..Len(list) :
        /\ Lower(list[i]) = Lower(keyword)
        /\ \A j \in 1..(i - 1) : Lower(list[j]) # Lower(keyword)

\* C16: the flattened keyword list that keyword generation returns has at
\* most 20 entries, no two of them equal when case is ignored, and keeps the
\* keywords in first-seen order over primary, then secondary, then context
\* keywords: each entry is the first spelling seen, entries are ordered as
\* they were first seen, and a keyword is left out only when 20 keywords seen
\* before it were kept.
C16_FlattenedList ==
    kpc = "returned" =>
        LET flat == FlattenTiers(keyword_data.hierarchical)
            out == keyword_data.all_keywords
            seen_at == [i \in 1..Len(out) |-> FirstSeen(flat, out[i])]
            kept == {Lower(out[i]) : i \in 1..Len(out)}
        IN /\ Len(out) <= 20
           /\ \A i, j \in 1..Len(out) : i < j => Lower(out[i]) # Lower(out[j])
           /\ \A i \in 1..Len(out) :
                /\ \E p \in 1..Len(flat) : Lower(flat[p]) = Lower(out[i])
                /\ out[i] = flat[seen_at[i]]
           /\ \A i \in 1..(Len(out) - 1) : seen_at[i] < seen_at[i + 1]
           /\ \A p \in 1..Len(flat) :
                \/ Lower(flat[p]) \in kept
                \/ /\ Len(out) = 20
                   /\ seen_at[20] < p

\* a reply with more than 20 distinct keywords, one of them repeated in
\* another spelling, was flattened
C16_Witness ==
    /\ kpc = "returned"
    /\ Len(keyword_data.all_keywords) = 20
    /\ LET flat == FlattenTiers(keyword_data.hierarchical)
       IN /\ Len(flat) > 20
          /\ \E p, q \in 1..Len(flat) :
               p < q /\ flat[p] # flat[q] /\ Lower(flat[p]) = Lower(flat[q])

TierSet(key) ==
    LET tier == Get(keyword_data.hierarchical, key)
    IN {Lower(tier[i]) : i \in 1..Len(tier)}

\* C17: in every keyword hierarchy that keyword generation returns, the
\* primary, secondary, context and negative tiers are pairwise disjoint once
\* case is ignored.
C17_TiersDisjoint ==
    KeywordsReturned =>
        \A k1, k2 \in TierKeys : k1 # k2 => TierSet(k1) \cap TierSet(k2) = {}

\* the text-generation service was not there for the keyword call, or its
\* keyword reply could not be recovered into a mapping
KeywordServiceUnavailable ==
    \/ query_generator \in {"None", "without_llm"}
    \/ /\ Len(responses) = 2
       /\ responses[2].kind = "error"

KeywordReplyUnrecovered ==
    /\ Len(responses) = 2
    /\ responses[2].kind = "reply"
    /\ LET result == parse_calls[Len(parse_calls)].result
       IN result.raises # "no" \/ result.value.type # "dict"

AnalysisReplyMalformed ==
    /\ Len(responses) >= 1
    /\ responses[1].kind = "reply"
    /\ LET result == parse_calls[1].result
       IN result.raises # "no" \/ result.value.type # "dict"

AnalysisServiceUnavailable ==
    \/ query_generator = "without_llm"
    \/ /\ Len(responses) >= 1
       /\ responses[1].kind = "error"

StrategySucceeds(content, strategy) ==
    CASE strategy = 1 -> content.strict.raises = "no" /\ content.strict.value.type = "dict"
      [] strategy = 2 -> content.requoted.raises = "no" /\ content.requoted.value.type = "dict"
      [] strategy = 3 -> /\ content.braced
                         /\ content.literal.raises = "no"
                         /\ content.literal.value.type = "dict"
      [] OTHER        -> Truthy(content.fields)

StrategyValue(content, strategy) ==
    CASE strategy = 1 -> content.strict.value
      [] strategy = 2 -> content.requoted.value
      [] strategy = 3 -> content.literal.value
      [] OTHER        -> content.fields

\* C20: structured output recovery tries strict parse, quote replacement,
\* native literal and field patterns in this order and returns the result of
\* the first that succeeds; its outcome is a mapping or a failure signalled
\* to the caller, never another value, and it signals failure exactly when
\* all four strategies fail.
C20_RecoveryOutcome ==
    \A c \in 1..Len(parse_calls) :
        LET content == parse_calls[c].content
            result == parse_calls[c].result
            succeeding == {s \in 1..4 : StrategySucceeds(content, s)}
            failed == result.raises # "no" \/ result.value.type = "NoneType"
        IN /\ failed <=> succeeding = {}
           /\ ~failed =>
                /\ result.value.type = "dict"
                /\ \A s \in succeeding :
                     (\A r \in succeeding : s <= r) => result.value = StrategyValue(content, s)


(***************************************************************************)
(* Search histories on overflow (SpecHistory).                             *)
(***************************************************************************)
\* what is left of a full history after one more record: the newest
\* HistoryKeep entries of the HistoryCap + 1, in their order
AfterOverflow(h, record) ==
    [i \in 1..HistoryKeep |->
        IF i = HistoryKeep THEN record ELSE h[HistoryCap + 1 - HistoryKeep + i]]

\* C22: when an append makes a search history exceed its 100-entry cap, the
\* oldest entries are dropped (51 of the 101) and the newest 50 are kept in
\* their original order, the record just appended last; this holds for the
\* optimizer's history and for the query generator's.
C22_OverflowKeepsNewest ==
    [][/\ (Len(optimizer_history) = HistoryCap /\ optimizer_appends' = optimizer_appends + 1)
            => optimizer_history' = AfterOverflow(optimizer_history, optimizer_appends')
       /\ (Len(generator_history) = HistoryCap /\ generator_appends' = generator_appends + 1)
            => generator_history' = AfterOverflow(generator_history, generator_appends')]_vars

\* both histories have just overflowed
C22_Witness ==
    /\ optimizer_appends = HistoryCap + 1
    /\ generator_appends = HistoryCap + 1
    /\ Len(optimizer_history) = HistoryKeep
    /\ Len(generator_history) = HistoryKeep
    /\ optimizer_history[HistoryKeep] = HistoryCap + 1
    /\ generator_history[1] = HistoryCap + 2 - HistoryKeep


(***************************************************************************)
(* Retrieval parameters and chunk strategy on small corpora (SpecPlan).    *)
(***************************************************************************)
\* C26: for every query analysis and every corpus of fewer than 50 chunks,
\* the returned k is at most corpus_size / 2 + 1 (integer division) and the
\* returned fetch_k at most corpus_size; for fact-check intent and a query
\* that is not complex the chunk strategy is chunk_size 500 and
\* chunk_overlap 100.
C26_SmallCorpusCaps ==
    /\ (search_params.called /\ doc_count < 50) =>
          /\ search_params.params.k <= doc_count \div 2 + 1
          /\ search_params.params.fetch_k <= doc_count
    /\ (chunk_config.called /\ query_analysis.intent = "fact_check"
            /\ query_analysis.complexity # "complex") =>
          /\ chunk_config.config.chunk_size = 500
          /\ chunk_config.config.chunk_overlap = 100

\* the scenario of the specification: 30 chunks, fact-check intent; and a
\* corpus where both caps bind
C26_Witness ==
    /\ search_params.called /\ chunk_config.called
    /\ doc_count = 30
    /\ query_analysis.intent = "fact_check"
    /\ query_analysis.complexity = "medium"
    /\ search_params.params.k = 3
    /\ search_params.params.fetch_k = 10
    /\ chunk_config.config.chunk_size = 500

C26_WitnessBinding ==
    /\ search_params.called
    /\ doc_count = 4
    /\ query_analysis.intent = "exploratory"
    /\ search_params.params.k = 3
    /\ search_params.params.fetch_k = 4

\* C28: for every query analysis and every corpus of at least one chunk,
\* the parameters returned by get_adaptive_search_params have k <= fetch_k.
C28_ResultCountWithinPool ==
    (search_params.called /\ doc_count >= 1) =>
        search_params.params.k <= search_params.params.fetch_k

\* k and fetch_k meet on a corpus of two chunks
C28_Witness ==
    /\ search_params.called
    /\ doc_count = 2
    /\ search_params.params.k = 2
    /\ search_params.params.fetch_k = 2


(***************************************************************************)
(* Quality score (SpecQuality).                                            *)
(***************************************************************************)
\* C27: for every final document set, of any size and diversity, with or
\* without a user feedback in [0,1], the overall_quality recorded by the
\* quality tracker lies in [0,1].
C27_QualityInUnitInterval ==
    quality_metrics.called =>
        /\ 0 <= quality_metrics.overall_quality.num
        /\ quality_metrics.overall_quality.num <= quality_metrics.overall_quality.den


(***************************************************************************)
(* The relevance check when the generation service fails (SpecRetrieve,    *)
(* SpecCheck).                                                             *)
(***************************************************************************)
\* C25: when the relevance check is triggered and the text-generation
\* service is unavailable, refinement is skipped and semantic_search returns
\* the first 10 fused candidates, in similarity order.
C25_TopTenWhenUnavailable ==
    (Returned /\ ret.refine \in {"llm_unavailable", "check_failed"}) =>
        ret.docs = Take(unique_docs, 10)

\* C29: for any non-empty candidate list and whatever the text-generation
\* service does (any reply, no service, an error), _final_relevance_check
\* returns a non-empty list, every element of which is one of the candidates
\* it was given.
C29_CheckReturnsCandidates ==
    check_result.called =>
        /\ check_result.result.docs # <<>>
        /\ \A i \in 1..Len(check_result.result.docs) :
              \E j \in 1..Len(check_documents) :
                  check_result.result.docs[i] = check_documents[j]

\* a single candidate and a reply that selects nothing
C29_Witness ==
    /\ check_result.called
    /\ Len(check_documents) = 1
    /\ check_response.kind = "reply"
    /\ check_result.result.refine = "none_selected"
    /\ check_result.result.docs = check_documents


(***************************************************************************)
(* Failing queries, the fallback and the order of floor and fusion         *)
(* (SpecRetrieve).                                                         *)
(***************************************************************************)
\* the queries of a loop whose index call did not raise
Succeeded(loop) == {q \in 1..inp.nq : <<loop, q>> \notin failed_queries}

\* what the scored loop collects when only the queries qs are issued
RECURSIVE ScoredItemsOf(_, _, _)
ScoredItemsOf(qs, q, floor) ==
    IF q > inp.nq THEN <<>>
    ELSE (IF q \in qs
          THEN ScoredHits(similarity_search_with_score(q, inp.store, inp.k), q, floor)
          ELSE <<>>)
         \o ScoredItemsOf(qs, q + 1, floor)

\* what the fallback loop collects when only the queries qs are issued
RECURSIVE FallbackDocsOf(_, _)
FallbackDocsOf(qs, q) ==
    IF q > inp.nq THEN <<>>
    ELSE (IF q \in qs THEN retriever_invoke(q, inp.store, inp.k) ELSE <<>>)
         \o FallbackDocsOf(qs, q + 1)

DocumentsOf(items) == [i \in 1..Len(items) |-> items[i].document]

\* the response the relevance check received, as the return records it
CheckResponseOf(r) ==
    IF r.refine = "check_failed" THEN [kind |-> "error", content |-> <<>>]
    ELSE [kind |-> "reply", content |-> r.reply]

\* what the scored loop and the fusion make of the queries qs alone
FusedItemsOf(qs) == DedupItems(SortByScore(ScoredItemsOf(qs, 1, inp.threshold)), {})

\* the list semantic_search returns from these fused items when the
\* relevance check, if due, receives the same response
ScoredResultFrom(fused) ==
    IF RelevanceCheckTriggered(inp.original_query, Len(fused))
    THEN Take(final_relevance_check(Take(DocumentsOf(fused), max_docs_for_check),
                                    CheckResponseOf(ret)).docs, OutputCap)
    ELSE Take(DocumentsOf(fused), OutputCap)

\* C23: an index query that fails, for any subset of the expanded queries,
\* does not fail retrieval: semantic_search returns what it would return had
\* only the queries that did not fail been issued (on the scored path the
\* queries of the scored loop, on the fallback path those of the fallback
\* loop).
C23_FailedQueriesSkipped ==
    /\ (Returned /\ ret.path = "scored") =>
          LET fused == FusedItemsOf(Succeeded("scored"))
          IN /\ ret.docs = ScoredResultFrom(fused)
             /\ metadata = AttachMetadata(fused)
    /\ (Returned /\ ret.path = "fallback") =>
          ret.docs = Take(DedupDocs(FallbackDocsOf(Succeeded("fallback"), 1), {}), OutputCap)

\* the first of two queries failed and the hits of the second were returned
C23_Witness ==
    /\ Returned /\ ret.path = "scored"
    /\ inp.nq = 2
    /\ failed_queries = {<<"scored", 1>>}
    /\ ret.docs # <<>>
    /\ \A i \in 1..Len(ret.docs) : metadata[ret.docs[i]].matched_query = 2

\* the index is unavailable: no retriever was ever built, or every index
\* query of the search raised
IndexUnavailable ==
    \/ ~inp.has_retriever
    \/ /\ inp.nq >= 1
       /\ Succeeded("scored") = {}

\* C24: when the index itself is unavailable, semantic_search falls back to
\* the unscored mode: it returns the retriever's hits for the expanded
\* queries, deduplicated by the leading-text fingerprint, with no threshold
\* filtering, at most 20 chunks.
C24_FallbackWhenIndexUnavailable ==
    (Returned /\ IndexUnavailable) =>
        /\ ret.path = "fallback"
        /\ ret.docs = Take(DedupDocs(FallbackDocsOf(Succeeded("fallback"), 1), {}), OutputCap)

AboveFloor(item) == item.similarity_score >= inp.threshold

\* the specified order on the hits of the queries that answered: fuse by
\* score, deduplicate by fingerprint, then drop what is below the floor
FloorAfterFusion ==
    SelectSeq(DedupItems(SortByScore(ScoredItemsOf(Succeeded("scored"), 1, 0)), {}), AboveFloor)

\* the fusion has just been done: the relevance check is being asked, the
\* fused list was returned, or the fallback is starting
FusionDone ==
    \/ rpc = "refine"
    \/ rpc = "done" /\ ret.path = "scored" /\ ret.refine = "not_run"
    \/ rpc = "fallback" /\ next_query = 1 /\ failed_queries \cap ({"fallback"} \X {1}) = {}
                        /\ relevant_docs = <<>>

\* C30: applying the similarity floor to each query's hits before fusion, as
\* semantic_search does, gives the same chunks, in the same order, with the
\* same attached score, distance and matched query as fusing by score,
\* deduplicating by fingerprint (highest-scored occurrence kept) and then
\* dropping the chunks below the floor.
C30_FloorCommutesWithFusion ==
    FusionDone =>
        LET floored == FloorAfterFusion
        IN /\ unique_docs = DocumentsOf(floored)
           /\ metadata = AttachMetadata(floored)

\* hits below the floor were dropped and, of the others, a repeated
\* fingerprint was dropped
C30_Witness ==
    /\ FusionDone
    /\ unique_docs # <<>>
    /\ Len(ScoredItemsOf(Succeeded("scored"), 1, 0)) > Len(relevant_docs_with_scores)
    /\ Len(unique_docs) < Len(relevant_docs_with_scores)

(***************************************************************************)
(* The caller-facing outcome of a request.                                 *)
(***************************************************************************)
\* what search_endpoint answers when the stages behave as c says
RestOutcomeOf(c) ==
    IF KeywordGenerationFails(c) THEN ErrorResponse(KeywordError(c), c.has_str)
    ELSE IF c.fetched = 0 THEN ErrorResponse(HTTPException(404, ZeroResultsRephrase), c.has_str)
    ELSE IF c.later = "raises" THEN ErrorResponse(LaterError, c.has_str)
    ELSE SearchResult(c)

IsErrorEvent(m) == m.event = "error"

\* the error events websocket_search sends when the stages behave as c says
WebsocketErrorsOf(c) ==
    IF KeywordGenerationFails(c) THEN ErrorEvents(KeywordError(c), c.has_str)
    ELSE IF c.fetched = 0
         THEN <<ErrorEvent(ZeroResultsRephrase)>> \o ErrorEvents(HTTPException(404, ZeroResults), c.has_str)
    ELSE IF c.later = "raises" THEN ErrorEvents(LaterError, c.has_str)
    ELSE <<>>

OutcomeOf(e, c) == IF e = "rest" THEN <<RestOutcomeOf(c)>> ELSE WebsocketErrorsOf(c)
CallerOutcome == IF endpoint = "rest" THEN <<http_response>> ELSE SelectSeq(sent, IsErrorEvent)
ZeroDocumentsFound(c) == ~KeywordGenerationFails(c) /\ c.fetched = 0
RequestDone == epc = "done"

\* C21: on POST /search and on /ws/search alike, what the caller receives
\* when the connectors found no document differs from what it receives for
\* any failure of the keyword generation: the response (status and detail)
\* on REST, the error events and the last of them on the websocket.
C21_ZeroDocumentsDistinguishable ==
    RequestDone =>
        /\ CallerOutcome = OutcomeOf(endpoint, collaborators)
        /\ ZeroDocumentsFound(collaborators) =>
              \A c \in Collaborators :
                  KeywordGenerationFails(c) =>
                      /\ OutcomeOf(endpoint, c) # CallerOutcome
                      /\ OutcomeOf(endpoint, c)[Len(OutcomeOf(endpoint, c))]
                            # CallerOutcome[Len(CallerOutcome)]

\* a REST request that found no document has been answered, with the same
\* status a failed keyword generation gets
C21_Witness ==
    /\ RequestDone /\ endpoint = "rest"
    /\ ZeroDocumentsFound(collaborators)
    /\ http_response.status_code = 500

\* the same on the websocket: three error events went out
C21_WitnessWebsocket ==
    /\ RequestDone /\ endpoint = "websocket"
    /\ ZeroDocumentsFound(collaborators)
    /\ Len(SelectSeq(sent, IsErrorEvent)) = 3

====
